---- MODULE Spec2Model ----
(***************************************************************************)
(* HangarBuddy: the Fona modem client (src/lib/fona.py) and its            *)
(* thread-safe manager (src/fona_manager.py).                              *)
(*                                                                         *)
(* One driver thread calls FonaManager.update() in a loop; caller threads  *)
(* call send_message / get_messages / delete_messages / delete_message;    *)
(* the RecurringTask timers, the 60 s poll timer and the ring-indicator    *)
(* interrupt only enqueue.  The three multiprocessing.Queue objects are    *)
(* FIFO sequences: put() appends, get() removes the head.                  *)
(***************************************************************************)
EXTENDS Integers, Sequences, FiniteSets, TLC

\* ------------------------------------------------------------------ bounds
MaxMsgs == 2          \* send_message calls in a behaviour of SpecSend
MaxRetries == 2       \* largest retry budget a caller passes
MaxTriggers == 2      \* firings of each timer in a behaviour of SpecStatus
MixMsgs == 1          \* send_message calls in a behaviour of Spec
MixTriggers == 1      \* firings of each timer in a behaviour of Spec
MaxMarkers == 1       \* poll-timer / ring-indicator firings after __init__
MaxSms == 1           \* SMS that arrive at the modem
NumCallers == 1       \* threads other than the driver
MaxWaiting == 2       \* markers the poll timer lets pile up in SpecPoll
MaxRssi == 31         \* largest rssi classify_strength is applied to
MaxPercent == 100     \* largest battery percent a scripted +CBC line reports
MaxInWaiting == 2     \* lines the transport holds unread at a time
MaxLines == 2         \* lines of an answer the model keeps in modem_reponses
MaxReading == 255     \* largest byte the gas sensor's converter returns
MaxDelayDays == 2     \* days between the sending and the reception of an SMS

\* ------------------------------------------------------- program constants
RETRY_INDEX == 3      \* the index used in message_to_send[3]
BATTERY_CRITICAL == 40
TIMEZONE_OFFSET == 8
DEFAULT_TRIGGER_THRESHOLD == 230
DEFAULT_ALL_CLEAR_THRESHOLD == 220

None == "None"
Free == "free"
Driver == "driver"
CallerNames == <<"caller1", "caller2", "caller3">>
Callers == { CallerNames[i] : i \in 1..NumCallers }
Threads == {Driver} \cup Callers

CHECK_BATTERY == "CheckBattery"
CHECK_SIGNAL == "CheckSignal"

\* ---------------------------------------------------------- text helpers
\* A str is a sequence of one-character strings.  An intermediate value of a
\* Python function is named once, as the bound variable of a one-element set.
The(S) == CHOOSE x \in S : TRUE

Whitespace == {" ", "\r", "\n"}
Digits == {"0", "1", "2", "3", "4", "5", "6", "7", "8", "9"}

DigitValue(c) ==
    CASE c = "0" -> 0 [] c = "1" -> 1 [] c = "2" -> 2 [] c = "3" -> 3
      [] c = "4" -> 4 [] c = "5" -> 5 [] c = "6" -> 6 [] c = "7" -> 7
      [] c = "8" -> 8 [] c = "9" -> 9

RECURSIVE LStrip(_)
LStrip(s) == IF s # <<>> /\ Head(s) \in Whitespace THEN LStrip(Tail(s)) ELSE s

RECURSIVE RStrip(_)
RStrip(s) ==
    IF s # <<>> /\ s[Len(s)] \in Whitespace
    THEN RStrip(SubSeq(s, 1, Len(s) - 1))
    ELSE s

\* str.strip()
Strip(s) == RStrip(LStrip(s))

\* sub in s
Contains(s, sub) ==
    \E i \in 1..(Len(s) - Len(sub) + 1) : SubSeq(s, i, i + Len(sub) - 1) = sub

\* s.split(sep) for a one-character separator: always at least one piece
RECURSIVE SplitFrom(_, _, _, _)
SplitFrom(s, sep, i, piece) ==
    IF i > Len(s) THEN <<piece>>
    ELSE IF s[i] = sep THEN <<piece>> \o SplitFrom(s, sep, i + 1, <<>>)
    ELSE SplitFrom(s, sep, i + 1, Append(piece, s[i]))

Split(s, sep) == The({ SplitFrom(str, sep, 1, <<>>) : str \in {s} })

RECURSIVE DecimalValue(_, _)
DecimalValue(s, acc) ==
    IF s = <<>> THEN acc ELSE DecimalValue(Tail(s), 10 * acc + DigitValue(Head(s)))

\* int(s) / float(s) accept surrounding whitespace; over the alphabet used
\* here (digits, letters, punctuation) they accept exactly the non-empty digit
\* strings and raise ValueError on everything else.
IsNumber(s) ==
    \E stripped \in {Strip(s)} :
       stripped # <<>> /\ \A i \in 1..Len(stripped) : stripped[i] \in Digits
NumberOf(s) == The({ DecimalValue(stripped, 0) : stripped \in {Strip(s)} })

\* str(n) for n >= 0
DigitChars == <<"0", "1", "2", "3", "4", "5", "6", "7", "8", "9">>
RECURSIVE Decimal(_)
Decimal(n) ==
    IF n < 10 THEN <<DigitChars[n + 1]>>
    ELSE Decimal(n \div 10) \o <<DigitChars[(n % 10) + 1]>>

\* None where a str is expected (no str is a sequence holding this element)
NoneStr == <<"None">>

\* None where a value object is expected (no value object has this field)
NoneObject == [none |-> TRUE]

\* -------------------------------------------------------- value objects
\* BatteryCondition.__init__: the three float() calls are outside any try.
BatteryConditionRaises(command_result) ==
    /\ command_result # NoneStr
    /\ Len(command_result) >= 1
    /\ \E tokens \in {Split(command_result, ":")} :
          /\ Len(tokens) > 1
          /\ \E results \in {Split(tokens[2], ",")} :
                /\ Len(results) > 2
                /\ \E i \in 1..3 : ~IsNumber(results[i])

BatteryCondition(command_result) ==
    LET error == [charge_state |-> 0, battery_percent |-> 0,
                  battery_voltage |-> <<0, 1>>, error_state |-> TRUE]
        FromResults(results) ==
            IF Len(results) <= 2 THEN error
            ELSE [charge_state |-> NumberOf(results[1]),
                  battery_percent |-> NumberOf(results[2]),
                  battery_voltage |-> <<NumberOf(results[3]), 10>>,
                  error_state |-> FALSE]
        FromTokens(tokens) ==
            IF Len(tokens) <= 1 THEN error
            ELSE The({ FromResults(results) : results \in {Split(tokens[2], ",")} })
    IN  IF command_result = NoneStr \/ Len(command_result) < 1 THEN error
        ELSE The({ FromTokens(tokens) : tokens \in {Split(command_result, ":")} })

\* a BatteryCondition.is_battery_ok that accepts the threshold itself
is_battery_ok_inclusive(self) ==
    IF self.error_state THEN FALSE ELSE self.battery_percent >= BATTERY_CRITICAL

\* BatteryCondition.is_battery_ok
is_battery_ok(self) ==
    IF self.error_state THEN FALSE ELSE self.battery_percent > BATTERY_CRITICAL

\* SignalStrength.__init__: every fault of the parse is caught and zeroes both
SignalStrength(command_result) ==
    LET zero == [recieved_signal_strength |-> 0, bit_error_rate |-> 0]
        FromFields(fields) ==
            IF Len(fields) < 2 \/ ~IsNumber(fields[1]) \/ ~IsNumber(fields[2])
            THEN zero
            ELSE [recieved_signal_strength |-> NumberOf(fields[1]),
                  bit_error_rate |-> NumberOf(fields[2])]
        FromTokens(tokens) ==
            IF Len(tokens) < 2 THEN zero
            ELSE The({ FromFields(fields) : fields \in {Split(tokens[2], ",")} })
    IN  IF command_result = NoneStr THEN zero
        ELSE The({ FromTokens(tokens) : tokens \in {Split(command_result, ":")} })

\* SignalStrength.classify_strength, lines 113-129: the label of the first
\* entry of the table the rssi does not exceed.  __init__ never leaves
\* recieved_signal_strength None, so the "Unknown" of line 120 is not returned.
comparisons ==
    << <<0, "None">>, <<4, "Poor">>, <<9, "Marginal">>, <<14, "OK">>, <<19, "Good">> >>
\* a classification that tests rssi < threshold
classify_strength_strict(self) ==
    LET hits == { i \in 1..Len(comparisons) :
                     self.recieved_signal_strength < comparisons[i][1] }
    IN  IF hits = {} THEN "Excellent"
        ELSE comparisons[CHOOSE i \in hits : \A j \in hits : i <= j][2]

classify_strength(self) ==
    LET hits == { i \in 1..Len(comparisons) :
                     self.recieved_signal_strength <= comparisons[i][1] }
    IN  IF hits = {} THEN "Excellent"
        ELSE comparisons[CHOOSE i \in hits : \A j \in hits : i <= j][2]

\* str.replace(c, "") for a one-character c
Remove(s, c) == SelectSeq(s, LAMBDA x : x # c)
\* str.rpartition(c)[2] for a one-character c
AfterLast(s, c) ==
    LET hits == { i \in 1..Len(s) : s[i] = c }
    IN  IF hits = {} THEN s
        ELSE SubSeq(s, (CHOOSE i \in hits : \A j \in hits : j <= i) + 1, Len(s))

\* the arguments datetime.datetime() and datetime.time() accept
DaysInMonth(year, month) ==
    IF month = 2
    THEN IF year % 4 = 0 /\ (year % 100 # 0 \/ year % 400 = 0) THEN 29 ELSE 28
    ELSE IF month \in {4, 6, 9, 11} THEN 30 ELSE 31
ValidDate(year, month, day) ==
    year \in 1..9999 /\ month \in 1..12 /\ day \in 1..DaysInMonth(year, month)
ValidTime(hour, minute, second) ==
    hour \in 0..23 /\ minute \in 0..59 /\ second \in 0..59

\* SmsMessage.__init__, lines 205-235: whatever the try raises is caught and
\* sets error_state.  message_id is assigned (line 223) before the datetime is
\* built (lines 224-228); the other attributes after it.
SmsMessage(message_header, message_text) ==
    LET Failed(message_id) ==
            [error_state |-> TRUE, message_id |-> message_id,
             sender_number |-> NoneStr, message_status |-> NoneStr,
             message_text |-> NoneStr, sent_time |-> <<>>]
        FromTokens(metadata_list, date_tokens, time_tokens) ==
            LET message_id == Strip(AfterLast(metadata_list[1], ":"))
                year == <<"2", "0">> \o date_tokens[1]
            IN  IF \/ Len(date_tokens) < 3
                   \/ Len(time_tokens) < 3
                   \/ ~IsNumber(year)
                   \/ \E i \in 2..3 : ~IsNumber(date_tokens[i])
                   \/ \E i \in 1..3 : ~IsNumber(time_tokens[i])
                THEN Failed(message_id)
                ELSE IF \/ ~ValidDate(NumberOf(year), NumberOf(date_tokens[2]),
                                      NumberOf(date_tokens[3]))
                        \/ ~ValidTime(NumberOf(time_tokens[1]), NumberOf(time_tokens[2]),
                                      NumberOf(time_tokens[3]))
                THEN Failed(message_id)
                ELSE [error_state |-> FALSE, message_id |-> message_id,
                      sender_number |-> Remove(metadata_list[3], "\""),
                      message_status |-> Remove(metadata_list[2], "\""),
                      message_text |-> message_text,
                      sent_time |-> <<NumberOf(year), NumberOf(date_tokens[2]),
                                      NumberOf(date_tokens[3]), NumberOf(time_tokens[1]),
                                      NumberOf(time_tokens[2]), NumberOf(time_tokens[3])>>]
        FromMetadata(metadata_list) ==
            IF Len(metadata_list) < 6 THEN Failed(NoneStr)
            ELSE The({ FromTokens(metadata_list, date_tokens, time_tokens) :
                          date_tokens \in {Split(Remove(metadata_list[5], "\""), "/")},
                          time_tokens \in {Split(Split(metadata_list[6], "-")[1], ":")} })
    IN  IF message_header = NoneStr THEN Failed(NoneStr)
        ELSE The({ FromMetadata(metadata_list) :
                      metadata_list \in {Split(message_header, ",")} })

\* datetime arithmetic: the second of its year at which a datetime
\* <<year, month, day, hour, minute, second>> falls, and the days attribute of
\* a timedelta of that many seconds (the floor, also of a negative one)
RECURSIVE DaysBefore(_, _)
DaysBefore(year, month) ==
    IF month = 1 THEN 0
    ELSE DaysBefore(year, month - 1) + DaysInMonth(year, month - 1)
SecondOfYear(dt) ==
    (((DaysBefore(dt[1], dt[2]) + dt[3] - 1) * 24 + dt[4]) * 60 + dt[5]) * 60 + dt[6]
TimedeltaDays(seconds) == seconds \div (24 * 60 * 60)

\* SmsMessage.message_sent_time_utc, as a second of the year
message_sent_time_utc(self) ==
    SecondOfYear(self.sent_time) + TIMEZONE_OFFSET * 60 * 60

\* SmsMessage.minutes_waiting, lines 185-186
minutes_waiting(self) ==
    TimedeltaDays(SecondOfYear(self.received_time)
                  - (SecondOfYear(self.sent_time) + TIMEZONE_OFFSET * 60 * 60)) * 24 * 60

\* ------------------------------------------------------------- transport
\* serial_connection is None, or a pyserial object: any of its writes and
\* reads may raise, and the modem may answer with any transcript below.
SERIAL == "Serial"
Transports == {None, SERIAL}

ECHO == <<"A", "T">>
OK_LINE == <<"O", "K">>
CBC_LINE == <<"+", "C", "B", "C", ":", " ", "0", ",", "8", "2", ",", "4", "0", "5", "0">>
CBC_SHORT == <<"+", "C", "B", "C", ":", " ", "0">>
CBC_GARBLED == <<"+", "C", "B", "C", ":", " ", "0", ",", "x", ",", "4">>
CSQ_LINE == <<"+", "C", "S", "Q", ":", " ", "1", "4", ",", "2">>
CBC_MARKER == <<"C", "B", "C", ":">>

\* the line '+CBC: 0,<percent>,4050'
CbcLine(percent) ==
    <<"+", "C", "B", "C", ":", " ", "0", ",">> \o Decimal(percent) \o <<",", "4", "0", "5", "0">>
\* what BatteryCondition is constructed from: None, '', a line of every
\* percent, a line with too few fields, a line with a field that is no number
BatteryInputs ==
    {NoneStr, <<>>, CBC_SHORT, CBC_GARBLED} \cup { CbcLine(p) : p \in 0..MaxPercent }

\* raw lines the modem may put on the wire after AT+CBC / AT+CSQ
BatteryTranscripts ==
    { <<>>, <<ECHO, CBC_LINE, OK_LINE>>, <<ECHO, CBC_SHORT>>, <<ECHO, CBC_GARBLED, OK_LINE>> }
SignalTranscripts ==
    { <<>>, <<CSQ_LINE>>, <<ECHO, CSQ_LINE, <<>>, OK_LINE>>, <<ECHO, <<>>, CSQ_LINE, OK_LINE>> }

\* Fona.__send_command__, return value for the raw lines readline() produced:
\* every line stripped, the first one (the echo) dropped.  replace("\r\r\n","")
\* finds nothing in a stripped readline() line.
SendCommandResult(raw) ==
    IF raw = <<>> THEN <<>> ELSE Tail([i \in 1..Len(raw) |-> Strip(raw[i])])

\* what __send_command__ can return for a command whose transcripts are T
CommandResults(conn, T) ==
    IF conn = None THEN { <<>> }
    ELSE { <<>> } \cup { SendCommandResult(raw) : raw \in T }

\* a get_signal_strength that gives None when the modem did not answer
get_signal_strength_or_none(command_result) ==
    IF Len(command_result) < 2
    THEN NoneObject
    ELSE SignalStrength(command_result[2])

\* Fona.get_signal_strength, given the list __send_command__ returned
get_signal_strength(command_result) ==
    IF Len(command_result) < 2
    THEN SignalStrength(NoneStr)
    ELSE SignalStrength(command_result[2])

\* Fona.get_current_battery_condition: the first line holding "CBC:" is parsed
CbcLines(command_result) ==
    { i \in 1..Len(command_result) : Contains(command_result[i], CBC_MARKER) }
FirstCbc(command_result) ==
    command_result[CHOOSE i \in CbcLines(command_result) :
                       \A j \in CbcLines(command_result) : i <= j]
BatteryPollRaises(command_result) ==
    CbcLines(command_result) # {} /\ BatteryConditionRaises(FirstCbc(command_result))
get_current_battery_condition(command_result) ==
    IF CbcLines(command_result) = {}
    THEN BatteryCondition(NoneStr)
    ELSE The({ BatteryCondition(result) : result \in {FirstCbc(command_result)} })

\* lib/utilities.get_cleaned_phone_number: None for a number it cannot clean
GOOD_NUMBER == "2061234567"
BAD_NUMBER == "bogus"
get_cleaned_phone_number(number) == IF number = GOOD_NUMBER THEN number ELSE None

\* ----------------------------------------------------- multiprocessing.Queue
EmptyQueue == <<>>
QueuePut(q, x) == Append(q, x)
QueueEmpty(q) == q = <<>>
\* a get() that takes the newest object
QueueGetNewest(q) == [item |-> q[Len(q)], rest |-> SubSeq(q, 1, Len(q) - 1)]

\* get() on a queue that is not empty: the object returned, the queue left
QueueGet(q) == [item |-> Head(q), rest |-> Tail(q)]

RECURSIVE PutAll(_, _)
PutAll(q, xs) == IF xs = <<>> THEN q ELSE PutAll(QueuePut(q, Head(xs)), Tail(xs))

\* ------------------------------------------------------------------ state
VARIABLES
    serial_connection,        \* Fona.serial_connection: None or a transport
    lock,                     \* FonaManager.__lock__: Free or the holder
    modem_access_lock,        \* Fona.__modem_access_lock__: Free or the holder
    update_status_queue,      \* FonaManager.__update_status_queue__
    send_message_queue,       \* FonaManager.__send_message_queue__
    message_waiting_queue,    \* Fona.__message_waiting_queue__
    current_battery_state,    \* FonaManager.__current_battery_state__
    current_signal_strength,  \* FonaManager.__current_signal_strength__
    sim,                      \* ids of the SMS stored on the modem
    pc,                       \* position of each thread
    op,                       \* manager operation each caller is executing
    arg,                      \* its argument
    messages,                 \* Fona.delete_messages: messages still to delete
    ret,                      \* value the last finished operation returned
    battery_checked,          \* locals of __process_status_updates__
    signal_checked,
    messages_to_retry,        \* locals of __process_send_messages__
    message_to_send,
    hNextId,                  \* history: requests enqueued so far
    hDrainStart,              \* history: requests visible when the drain began
    hDrainLog,                \* history: requests attempted in this drain
    hSendResult,              \* history: outcome of the last Fona.send_message
    hPending,                 \* history: trigger kinds visible when update began
    hPolls,                   \* history: polls started in this update, per kind
    hCycleDeq,                \* history: trigger kinds dequeued in this update
    hEnq,                     \* history: triggers enqueued, per kind
    hPolledAt,                \* history: hEnq of a kind when its latest poll began
    hMarkers,                 \* history: poll / ring markers enqueued
    hSms,                     \* history: SMS that arrived at the modem
    command_result,           \* local of Fona.get_current_battery_condition
    poll_timer,               \* the threading.Timer of __poll_for_messages__
    fona_call,                \* the Fona operation applied last, on its own
    in_waiting,               \* what the transport holds unread, oldest first
    modem_reponses,           \* local of Fona.__send_command__ (of the lock holder)
    MESSAGES,                 \* what get_messages() returned to the host loop
    is_gas_detected,          \* GasSensor: the alarm
    current_value,            \* GasSensor: <<reading>>, or <<>> for None
    enabled                   \* GasSensor: the i2c bus answers

vars == <<serial_connection, lock, modem_access_lock, update_status_queue,
          send_message_queue, message_waiting_queue, current_battery_state,
          current_signal_strength, sim, pc, op, arg, messages, ret,
          battery_checked, signal_checked, messages_to_retry, message_to_send,
          hNextId, hDrainStart, hDrainLog, hSendResult, hPending,
          hPolls, hCycleDeq, hEnq, hPolledAt, hMarkers, hSms, command_result,
          poll_timer, fona_call, in_waiting, modem_reponses, MESSAGES,
          is_gas_detected, current_value, enabled>>

fonaVars == <<serial_connection, modem_access_lock, message_waiting_queue, sim>>
cacheVars == <<current_battery_state, current_signal_strength>>
callerVars == <<op, arg, messages, ret>>
statusLocals == <<battery_checked, signal_checked>>
sendLocals == <<messages_to_retry, message_to_send>>
sendHistory == <<hNextId, hDrainStart, hDrainLog, hSendResult>>
statusHistory == <<hPending, hPolls, hCycleDeq, hEnq, hPolledAt>>
envHistory == <<hMarkers, hSms>>
readVars == <<in_waiting, modem_reponses>>
hostVars == <<MESSAGES>>
sensorVars == <<is_gas_detected, current_value, enabled>>
auxVars == <<command_result, poll_timer, fona_call, readVars, hostVars, sensorVars>>

Kinds == {CHECK_BATTERY, CHECK_SIGNAL}
\* a threading.Timer that has been started and has not fired yet
ARMED == "armed"
\* no Fona operation has been applied yet
NoCall == [op |-> "none", args |-> <<>>, writes |-> <<>>, result |-> <<"none">>]
Zero == [k \in Kinds |-> 0]
\* a queued request: the list send_message() put, with its history (the order
\* of its put, the budget it was enqueued with, the attempts made so far)
Request(id, msg) == [id |-> id, budget |-> msg[3], attempts |-> 0, msg |-> msg]
NoMessage == [id |-> 0, budget |-> 0, attempts |-> 0, msg |-> <<>>]
Requests == { <<GOOD_NUMBER, "hi">>, <<BAD_NUMBER, "hi">> }

Ids(xs) == [i \in 1..Len(xs) |-> xs[i].id]
Range(f) == { f[i] : i \in DOMAIN f }

\* FonaManager.__init__ has run: both caches hold the snapshot of a first
\* poll the modem did not answer, both timers are armed, Fona.__init__ has put
\* the first "POLL" marker.
Init ==
    /\ serial_connection \in Transports
    /\ lock = Free
    /\ modem_access_lock = Free
    /\ update_status_queue = EmptyQueue
    /\ send_message_queue = EmptyQueue
    /\ message_waiting_queue = QueuePut(EmptyQueue, "POLL")
    /\ current_battery_state = get_current_battery_condition(<<>>)
    /\ current_signal_strength = get_signal_strength(<<>>)
    /\ sim = {}
    /\ pc = [t \in Threads |-> "idle"]
    /\ op = [t \in Threads |-> "none"]
    /\ arg = [t \in Threads |-> <<>>]
    /\ messages = [t \in Threads |-> <<>>]
    /\ ret = [t \in Threads |-> <<>>]
    /\ battery_checked = FALSE
    /\ signal_checked = FALSE
    /\ messages_to_retry = <<>>
    /\ message_to_send = NoMessage
    /\ hNextId = 0
    /\ hDrainStart = <<>>
    /\ hDrainLog = <<>>
    /\ hSendResult = "none"
    /\ hPending = {}
    /\ hPolls = Zero
    /\ hCycleDeq = {}
    /\ hEnq = Zero
    /\ hPolledAt = Zero
    /\ hMarkers = 0
    /\ hSms = 0
    /\ command_result = <<>>
    /\ poll_timer = ARMED
    /\ fona_call = NoCall
    /\ in_waiting = <<>>
    /\ modem_reponses = <<>>
    /\ MESSAGES = <<>>
    /\ is_gas_detected = FALSE
    /\ current_value = <<DEFAULT_ALL_CLEAR_THRESHOLD>>
    /\ enabled = TRUE

\* ------------------------------------------------------------ the two locks
\* an acquire that does not block
LockAcquireNonBlocking(t) == TRUE

\* threading.Lock.acquire(True) blocks until the lock is free
LockAcquire(t) == lock = Free
ModemLockAcquire(t) == modem_access_lock = Free
Goto(t, label) == pc' = [pc EXCEPT ![t] = label]

\* labels at which a thread is inside Fona.__send_command__
IoLabel(acquireLabel) ==
    CASE acquireLabel = "bat_acquire" -> "bat_io"
      [] acquireLabel = "sig_acquire" -> "sig_io"
      [] acquireLabel = "mode_acquire" -> "mode_io"
      [] acquireLabel = "gm_mode_acquire" -> "gm_mode_io"
      [] acquireLabel = "gm_list_acquire" -> "gm_list_io"
      [] acquireLabel = "del_acquire" -> "del_io"
CommandAcquireLabels ==
    {"bat_acquire", "sig_acquire", "mode_acquire", "gm_mode_acquire",
     "gm_list_acquire", "del_acquire"}
CommandIoLabels ==
    {"bat_io", "sig_io", "mode_io", "gm_mode_io", "gm_list_io", "del_io"}
ManagerAcquireLabels == {"psu_acquire", "psm_acquire", "lock_acquire"}

\* Fona.__send_command__, line 615: take the modem access lock
SendCommandAcquire(t) ==
    /\ pc[t] \in CommandAcquireLabels
    /\ ModemLockAcquire(t)
    /\ modem_access_lock' = t
    /\ Goto(t, IoLabel(pc[t]))
    /\ UNCHANGED <<auxVars, serial_connection, message_waiting_queue, sim, lock,
                   update_status_queue, send_message_queue, cacheVars, callerVars,
                   statusLocals, sendLocals, sendHistory, statusHistory, envHistory>>

\* ------------------------------------------------------------- producers
\* a trigger callback that puts its tag twice
TriggerCheckTwice(kind, limit) ==
    /\ hEnq[kind] < limit
    /\ update_status_queue' = QueuePut(QueuePut(update_status_queue, kind), kind)
    /\ hEnq' = [hEnq EXCEPT ![kind] = @ + 1]
    /\ UNCHANGED <<auxVars, fonaVars, lock, send_message_queue, cacheVars, pc,
                   callerVars, statusLocals, sendLocals, sendHistory, hPending,
                   hPolls, hCycleDeq, hPolledAt, envHistory>>

\* FonaManager.__trigger_check_battery__ / __trigger_check_signal__
TriggerCheck(kind, limit) ==
    /\ hEnq[kind] < limit
    /\ update_status_queue' = QueuePut(update_status_queue, kind)
    /\ hEnq' = [hEnq EXCEPT ![kind] = @ + 1]
    /\ UNCHANGED <<auxVars, fonaVars, lock, send_message_queue, cacheVars, pc, callerVars,
                   statusLocals, sendLocals, sendHistory, hPending, hPolls,
                   hCycleDeq, hPolledAt, envHistory>>

trigger_check_battery(limit) == TriggerCheck(CHECK_BATTERY, limit)
trigger_check_signal(limit) == TriggerCheck(CHECK_SIGNAL, limit)

\* Fona.__poll_for_messages__ (threading.Timer, re-armed on every firing)
poll_for_messages ==
    /\ hMarkers < MaxMarkers
    /\ message_waiting_queue' = QueuePut(message_waiting_queue, "POLL")
    /\ hMarkers' = hMarkers + 1
    /\ UNCHANGED <<auxVars, serial_connection, modem_access_lock, sim, lock,
                   update_status_queue, send_message_queue, cacheVars, pc,
                   callerVars, statusLocals, sendLocals, sendHistory,
                   statusHistory, hSms>>

\* a poll timer that puts its marker and is not started again
poll_timer_fires_once ==
    /\ poll_timer = ARMED
    /\ Len(message_waiting_queue) < MaxWaiting
    /\ message_waiting_queue' = QueuePut(message_waiting_queue, "POLL")
    /\ poll_timer' = "fired"
    /\ UNCHANGED <<command_result, fona_call, readVars, hostVars, sensorVars, serial_connection,
                   modem_access_lock, sim, lock, update_status_queue,
                   send_message_queue, cacheVars, pc, callerVars, statusLocals,
                   sendLocals, sendHistory, statusHistory, envHistory>>

\* Fona.__poll_for_messages__, firing without end: the marker is put and a new
\* Timer started (lines 539-540); firings are not counted, the timer holds
\* back while MaxWaiting markers are queued
poll_timer_fires ==
    /\ poll_timer = ARMED
    /\ Len(message_waiting_queue) < MaxWaiting
    /\ message_waiting_queue' = QueuePut(message_waiting_queue, "POLL")
    /\ poll_timer' = ARMED
    /\ UNCHANGED <<command_result, fona_call, readVars, hostVars, sensorVars, serial_connection,
                   modem_access_lock, sim, lock, update_status_queue,
                   send_message_queue, cacheVars, pc, callerVars, statusLocals,
                   sendLocals, sendHistory, statusHistory, envHistory>>

\* Fona.__ring_indicator_pulsed__ (GPIO rising-edge callback)
ring_indicator_pulsed ==
    /\ hMarkers < MaxMarkers
    /\ message_waiting_queue' = QueuePut(message_waiting_queue, "RI:18")
    /\ hMarkers' = hMarkers + 1
    /\ UNCHANGED <<auxVars, serial_connection, modem_access_lock, sim, lock,
                   update_status_queue, send_message_queue, cacheVars, pc,
                   callerVars, statusLocals, sendLocals, sendHistory,
                   statusHistory, hSms>>

\* the modem stores an incoming SMS
SmsArrives ==
    /\ serial_connection # None
    /\ hSms < MaxSms
    /\ sim' = sim \cup {hSms + 1}
    /\ hSms' = hSms + 1
    /\ UNCHANGED <<auxVars, serial_connection, modem_access_lock, message_waiting_queue,
                   lock, update_status_queue, send_message_queue, cacheVars, pc,
                   callerVars, statusLocals, sendLocals, sendHistory,
                   statusHistory, hMarkers>>

\* ------------------------------------------------- FonaManager.update()
\* a test that takes every tag for the battery tag
TagInBatteryOnly(tag, command) == tag = CHECK_BATTERY

\* the string test `text.CHECK_BATTERY in command` on the two trigger tags
TagIn(tag, command) == tag = command

\* update(), up to the acquire of __process_status_updates__ (lines 52, 185-186)
update ==
    /\ pc[Driver] = "idle"
    /\ battery_checked' = FALSE
    /\ signal_checked' = FALSE
    /\ hPolls' = Zero
    /\ hCycleDeq' = {}
    /\ hPending' = {}
    /\ hSendResult' = "none"
    /\ Goto(Driver, "psu_acquire")
    /\ UNCHANGED <<auxVars, fonaVars, lock, update_status_queue, send_message_queue,
                   cacheVars, callerVars, sendLocals, hNextId, hDrainStart,
                   hDrainLog, hEnq, hPolledAt, envHistory>>

\* __process_status_updates__, line 188
ProcessStatusAcquire ==
    /\ pc[Driver] = "psu_acquire"
    /\ LockAcquire(Driver)
    /\ lock' = Driver
    /\ hPending' = Range(update_status_queue)
    /\ Goto(Driver, "psu_loop")
    /\ UNCHANGED <<auxVars, fonaVars, update_status_queue, send_message_queue, cacheVars,
                   callerVars, statusLocals, sendLocals, sendHistory, hPolls,
                   hCycleDeq, hEnq, hPolledAt, envHistory>>

\* a return of __process_status_updates__ that skips the release
FinishStatusKeepsLock ==
    /\ lock' = lock
    /\ battery_checked' = FALSE
    /\ signal_checked' = FALSE
    /\ hPending' = {}
    /\ hPolls' = Zero
    /\ hCycleDeq' = {}
    /\ Goto(Driver, "psm_acquire")

\* __process_status_updates__ returns: line 205, its locals are gone
FinishStatus ==
    /\ lock' = Free
    /\ battery_checked' = FALSE
    /\ signal_checked' = FALSE
    /\ hPending' = {}
    /\ hPolls' = Zero
    /\ hCycleDeq' = {}
    /\ Goto(Driver, "psm_acquire")

\* one test of the while condition and, when the queue is not empty, the get()
\* and the two ifs (lines 191-199)
ProcessStatusLoop ==
    /\ pc[Driver] = "psu_loop"
    /\ IF QueueEmpty(update_status_queue)
       THEN /\ FinishStatus
            /\ UNCHANGED update_status_queue
       ELSE LET command == QueueGet(update_status_queue).item
                battery == TagIn(CHECK_BATTERY, command) /\ ~battery_checked
                signal == TagIn(CHECK_SIGNAL, command) /\ ~signal_checked
            IN  /\ update_status_queue' = QueueGet(update_status_queue).rest
                /\ hCycleDeq' = hCycleDeq \cup {command}
                /\ hPolls' = IF battery THEN [hPolls EXCEPT ![CHECK_BATTERY] = @ + 1]
                             ELSE IF signal THEN [hPolls EXCEPT ![CHECK_SIGNAL] = @ + 1]
                             ELSE hPolls
                /\ Goto(Driver, IF battery THEN "bat_acquire"
                                ELSE IF signal THEN "sig_acquire"
                                ELSE "psu_loop")
                /\ UNCHANGED <<lock, statusLocals, hPending>>
    /\ UNCHANGED <<auxVars, fonaVars, send_message_queue, cacheVars, callerVars,
                   sendLocals, sendHistory, hEnq, hPolledAt, envHistory>>

\* Fona.get_current_battery_condition, line 306: the AT+CBC transaction ends
\* and its lines are in command_result
BatteryPollIo ==
    /\ pc[Driver] = "bat_io"
    /\ \E r \in CommandResults(serial_connection, BatteryTranscripts) :
          command_result' = r
    /\ modem_access_lock' = Free
    /\ hPolledAt' = [hPolledAt EXCEPT ![CHECK_BATTERY] = hEnq[CHECK_BATTERY]]
    /\ Goto(Driver, "bat_parse")
    /\ UNCHANGED <<poll_timer, fona_call, readVars, hostVars, sensorVars, serial_connection,
                   message_waiting_queue, sim, lock, update_status_queue,
                   send_message_queue, cacheVars, callerVars, statusLocals,
                   sendLocals, sendHistory, hPending, hPolls, hCycleDeq, hEnq,
                   envHistory>>

\* lines 308-312 and __update_battery_state__: the answer is parsed and the
\* snapshot stored.  A ValueError of BatteryCondition leaves through the
\* except of fona_manager.py line 200.
update_battery_state ==
    /\ pc[Driver] = "bat_parse"
    /\ IF BatteryPollRaises(command_result)
       THEN /\ FinishStatus
            /\ UNCHANGED current_battery_state
       ELSE /\ current_battery_state' = get_current_battery_condition(command_result)
            /\ battery_checked' = TRUE
            /\ Goto(Driver, "psu_loop")
            /\ UNCHANGED <<lock, signal_checked, hPending, hPolls, hCycleDeq>>
    /\ command_result' = <<>>
    /\ UNCHANGED <<poll_timer, fona_call, readVars, hostVars, sensorVars, fonaVars, update_status_queue,
                   send_message_queue, current_signal_strength, callerVars,
                   sendLocals, sendHistory, hEnq, hPolledAt, envHistory>>

\* __update_signal_strength__: the AT+CSQ transaction ends
SignalPollIo ==
    /\ pc[Driver] = "sig_io"
    /\ \E r \in CommandResults(serial_connection, SignalTranscripts) :
          current_signal_strength' = get_signal_strength(r)
    /\ modem_access_lock' = Free
    /\ signal_checked' = TRUE
    /\ hPolledAt' = [hPolledAt EXCEPT ![CHECK_SIGNAL] = hEnq[CHECK_SIGNAL]]
    /\ Goto(Driver, "psu_loop")
    /\ UNCHANGED <<auxVars, serial_connection, message_waiting_queue, sim, lock,
                   update_status_queue, send_message_queue,
                   current_battery_state, callerVars, battery_checked,
                   sendLocals, sendHistory, hPending, hPolls, hCycleDeq, hEnq,
                   envHistory>>

\* an outbound drain that starts without waiting for the manager lock
ProcessSendAcquireUnguarded ==
    /\ pc[Driver] = "psm_acquire"
    /\ lock' = Driver
    /\ messages_to_retry' = <<>>
    /\ hDrainStart' = Ids(send_message_queue)
    /\ hDrainLog' = <<>>
    /\ Goto(Driver, "psm_loop")
    /\ UNCHANGED <<auxVars, fonaVars, update_status_queue, send_message_queue, cacheVars,
                   callerVars, statusLocals, message_to_send, hNextId,
                   hSendResult, statusHistory, envHistory>>

\* __process_send_messages__, lines 214-216
ProcessSendAcquire ==
    /\ pc[Driver] = "psm_acquire"
    /\ LockAcquire(Driver)
    /\ lock' = Driver
    /\ messages_to_retry' = <<>>
    /\ hDrainStart' = Ids(send_message_queue)
    /\ hDrainLog' = <<>>
    /\ Goto(Driver, "psm_loop")
    /\ UNCHANGED <<auxVars, fonaVars, update_status_queue, send_message_queue, cacheVars,
                   callerVars, statusLocals, message_to_send, hNextId,
                   hSendResult, statusHistory, envHistory>>

\* a return of the outbound drain that throws away what the queue still holds
FinishSendEmptiesQueue(queue, retry) ==
    /\ send_message_queue' = PutAll(EmptyQueue, retry)
    /\ lock' = Free
    /\ messages_to_retry' = <<>>
    /\ message_to_send' = NoMessage
    /\ hDrainStart' = <<>>
    /\ hDrainLog' = <<>>
    /\ Goto(Driver, "idle")

\* lines 240-245: the retry list is put back, the lock released; update()
\* returns and its locals are gone
FinishSend(queue, retry) ==
    /\ send_message_queue' = PutAll(queue, retry)
    /\ lock' = Free
    /\ messages_to_retry' = <<>>
    /\ message_to_send' = NoMessage
    /\ hDrainStart' = <<>>
    /\ hDrainLog' = <<>>
    /\ Goto(Driver, "idle")

\* the except of line 229, for the request m: message_to_send[3] -= 1 on the
\* three-element list send_message() enqueued
SendFailureHandler(m, retry) ==
    IF RETRY_INDEX + 1 > Len(m.msg)
    THEN [raised |-> TRUE, retry |-> retry]
    ELSE LET count == m.msg[RETRY_INDEX + 1] - 1
             m2 == [m EXCEPT !.msg[RETRY_INDEX + 1] = count]
         IN  [raised |-> FALSE,
              retry |-> IF count > 0 THEN Append(retry, m2) ELSE retry]

\* one test of the while condition of line 218 and, when the queue is not
\* empty, the get() and the entry of Fona.send_message (lines 339-345)
ProcessSendLoop ==
    /\ pc[Driver] = "psm_loop"
    /\ IF QueueEmpty(send_message_queue)
       THEN /\ FinishSend(send_message_queue, messages_to_retry)
            /\ hSendResult' = "none"
       ELSE LET front == QueueGet(send_message_queue).item
                m == [front EXCEPT !.attempts = @ + 1]
                cleaned_number == get_cleaned_phone_number(m.msg[1])
                rejected == cleaned_number = None \/ m.msg[2] = None
            IN  /\ message_to_send' = m
                /\ send_message_queue' = QueueGet(send_message_queue).rest
                /\ hDrainLog' = Append(hDrainLog, m.id)
                /\ hSendResult' = IF rejected THEN "None" ELSE "pending"
                /\ Goto(Driver, IF rejected THEN "psm_loop" ELSE "mode_acquire")
                /\ UNCHANGED <<lock, messages_to_retry, hDrainStart>>
    /\ UNCHANGED <<auxVars, fonaVars, update_status_queue, cacheVars, callerVars,
                   statusLocals, hNextId, statusHistory, envHistory>>

\* Fona.send_message, line 345: the AT+CMGF=1 transaction ends
SetSmsModeIo ==
    /\ pc[Driver] = "mode_io"
    /\ modem_access_lock' = Free
    /\ Goto(Driver, "hs_io")
    /\ UNCHANGED <<auxVars, serial_connection, message_waiting_queue, sim, lock,
                   update_status_queue, send_message_queue, cacheVars,
                   callerVars, statusLocals, sendLocals, sendHistory,
                   statusHistory, envHistory>>

\* Fona.send_message, lines 346-363: the writes and reads of the handshake,
\* none of them under the modem access lock; a transport fault propagates
HandshakeOutcomes(conn) ==
    IF conn = None THEN {"True"} ELSE {"True", "raised"}

\* a handshake whose failure handler puts the request back at once
HandshakeRequeuesAtOnce ==
    /\ pc[Driver] = "hs_io"
    /\ \E outcome \in HandshakeOutcomes(serial_connection) :
          /\ hSendResult' = outcome
          /\ send_message_queue' =
                IF outcome = "raised" /\ message_to_send.msg[3] > 1
                THEN QueuePut(send_message_queue,
                              [message_to_send EXCEPT !.msg[3] = @ - 1])
                ELSE send_message_queue
    /\ Goto(Driver, "psm_loop")
    /\ UNCHANGED <<auxVars, fonaVars, lock, update_status_queue, cacheVars, callerVars,
                   statusLocals, sendLocals, hNextId, hDrainStart, hDrainLog,
                   statusHistory, envHistory>>

\* a handshake after which a request that was sent is kept for another attempt
HandshakeRetriesOnSuccess ==
    /\ pc[Driver] = "hs_io"
    /\ \E outcome \in HandshakeOutcomes(serial_connection) :
          /\ hSendResult' = outcome
          /\ IF outcome = "True"
             THEN /\ messages_to_retry' =
                        Append(messages_to_retry,
                               [message_to_send EXCEPT !.msg[3] = @ - 1])
                  /\ Goto(Driver, "psm_loop")
                  /\ UNCHANGED <<lock, send_message_queue, message_to_send,
                                 hDrainStart, hDrainLog>>
             ELSE LET handled == SendFailureHandler(message_to_send, messages_to_retry)
                  IN  IF handled.raised
                      THEN FinishSend(send_message_queue, messages_to_retry)
                      ELSE /\ messages_to_retry' = handled.retry
                           /\ Goto(Driver, "psm_loop")
                           /\ UNCHANGED <<lock, send_message_queue, message_to_send,
                                          hDrainStart, hDrainLog>>
    /\ UNCHANGED <<auxVars, fonaVars, update_status_queue, cacheVars, callerVars,
                   statusLocals, hNextId, statusHistory, envHistory>>

Handshake ==
    /\ pc[Driver] = "hs_io"
    /\ \E outcome \in HandshakeOutcomes(serial_connection) :
          /\ hSendResult' = outcome
          /\ IF outcome = "True"
             THEN /\ Goto(Driver, "psm_loop")
                  /\ UNCHANGED <<lock, send_message_queue, sendLocals,
                                 hDrainStart, hDrainLog>>
             ELSE LET handled == SendFailureHandler(message_to_send, messages_to_retry)
                  IN  IF handled.raised
                      THEN FinishSend(send_message_queue, messages_to_retry)
                      ELSE /\ messages_to_retry' = handled.retry
                           /\ Goto(Driver, "psm_loop")
                           /\ UNCHANGED <<lock, send_message_queue, message_to_send,
                                          hDrainStart, hDrainLog>>
    /\ UNCHANGED <<auxVars, fonaVars, update_status_queue, cacheVars, callerVars,
                   statusLocals, hNextId, statusHistory, envHistory>>

\* ------------------------------------------- operations of caller threads
Sending(t) == op[t] = "send_message" /\ pc[t] # "idle"

\* a manager operation is called, up to its self.__lock__.acquire(True)
Call(t, operation) ==
    /\ pc[t] = "idle"
    /\ op' = [op EXCEPT ![t] = operation]
    /\ arg' = [arg EXCEPT ![t] = <<>>]
    /\ ret' = [ret EXCEPT ![t] = <<>>]
    /\ Goto(t, "lock_acquire")
    /\ UNCHANGED <<auxVars, fonaVars, lock, update_status_queue, send_message_queue,
                   cacheVars, messages, statusLocals, sendLocals, sendHistory,
                   statusHistory, envHistory>>

\* FonaManager.send_message is called (lines 55-64), at most limit times
CallSendMessage(t, limit) ==
    /\ hNextId + Cardinality({u \in Callers : Sending(u)}) < limit
    /\ Call(t, "send_message")

\* FonaManager.get_messages is called (lines 100-107)
CallGetMessages(t) == Call(t, "get_messages")

\* FonaManager.delete_messages is called (lines 120-127)
CallDeleteMessages(t) == Call(t, "delete_messages")

\* FonaManager.delete_message is called (lines 140-146)
CallDeleteMessage(t) == Call(t, "delete_message")

\* the arguments an operation can be called with
Arguments(operation) ==
    IF operation = "send_message"
    THEN { Append(request, maximum_number_of_retries) :
             request \in Requests, maximum_number_of_retries \in 1..MaxRetries }
    ELSE IF operation = "delete_message"
    THEN { <<message_id>> : message_id \in 1..MaxSms }
    ELSE { <<>> }

\* a caller that goes on without having the lock
ManagerLockAcquireUnguarded(t) ==
    /\ pc[t] = "lock_acquire"
    /\ lock' = t
    /\ \E a \in Arguments(op[t]) : arg' = [arg EXCEPT ![t] = a]
    /\ Goto(t, CASE op[t] = "send_message" -> "sm_put"
                 [] op[t] = "get_messages" -> "gm_start"
                 [] op[t] = "delete_messages" -> "gm_start"
                 [] op[t] = "delete_message" -> "del_acquire")
    /\ UNCHANGED <<auxVars, fonaVars, update_status_queue, send_message_queue, cacheVars,
                   op, messages, ret, statusLocals, sendLocals, sendHistory,
                   statusHistory, envHistory>>

\* self.__lock__.acquire(True) of lines 65, 109, 129 and 148; the arguments
\* of the call are first looked at under the lock
ManagerLockAcquire(t) ==
    /\ pc[t] = "lock_acquire"
    /\ LockAcquire(t)
    /\ lock' = t
    /\ \E a \in Arguments(op[t]) : arg' = [arg EXCEPT ![t] = a]
    /\ Goto(t, CASE op[t] = "send_message" -> "sm_put"
                 [] op[t] = "get_messages" -> "gm_start"
                 [] op[t] = "delete_messages" -> "gm_start"
                 [] op[t] = "delete_message" -> "del_acquire")
    /\ UNCHANGED <<auxVars, fonaVars, update_status_queue, send_message_queue, cacheVars,
                   op, messages, ret, statusLocals, sendLocals, sendHistory,
                   statusHistory, envHistory>>

\* a return that leaves the manager lock taken
ReturnKeepsLock(t, value) ==
    /\ lock' = lock
    /\ ret' = [ret EXCEPT ![t] = value]
    /\ op' = [op EXCEPT ![t] = "none"]
    /\ arg' = [arg EXCEPT ![t] = <<>>]
    /\ Goto(t, "idle")

\* the operation of thread t returns value: lines 116-118, 136-138, 155, 70
Return(t, value) ==
    /\ lock' = Free
    /\ ret' = [ret EXCEPT ![t] = value]
    /\ op' = [op EXCEPT ![t] = "none"]
    /\ arg' = [arg EXCEPT ![t] = <<>>]
    /\ Goto(t, "idle")

\* FonaManager.send_message, lines 66-70
SendMessagePut(t) ==
    /\ pc[t] = "sm_put"
    /\ send_message_queue' =
          QueuePut(send_message_queue, Request(hNextId + 1, arg[t]))
    /\ hNextId' = hNextId + 1
    /\ Return(t, <<"None">>)
    /\ UNCHANGED <<auxVars, fonaVars, update_status_queue, cacheVars, messages,
                   statusLocals, sendLocals, hDrainStart, hDrainLog,
                   hSendResult, statusHistory, envHistory>>

\* what the manager operation returns when Fona produced no message
NothingFound(operation) ==
    IF operation = "get_messages" THEN <<"list", <<>>>> ELSE <<"count", 0>>

\* Fona.get_messages, lines 373-380, also as the first call of
\* Fona.delete_messages (line 422)
GetMessagesStart(t) ==
    /\ pc[t] = "gm_start"
    /\ IF serial_connection = None
       THEN /\ Return(t, NothingFound(op[t]))
            /\ UNCHANGED messages
       ELSE /\ Goto(t, "gm_mode_acquire")
            /\ UNCHANGED <<lock, callerVars>>
    /\ UNCHANGED <<auxVars, fonaVars, update_status_queue, send_message_queue, cacheVars,
                   statusLocals, sendLocals, sendHistory, statusHistory,
                   envHistory>>

\* Fona.get_messages, line 380: the AT+CMGF=1 transaction ends
GetMessagesModeIo(t) ==
    /\ pc[t] = "gm_mode_io"
    /\ modem_access_lock' = Free
    /\ Goto(t, "gm_list_acquire")
    /\ UNCHANGED <<auxVars, serial_connection, message_waiting_queue, sim, lock,
                   update_status_queue, send_message_queue, cacheVars,
                   callerVars, statusLocals, sendLocals, sendHistory,
                   statusHistory, envHistory>>

RECURSIVE Ascending(_)
Ascending(S) ==
    IF S = {} THEN <<>>
    ELSE LET least == CHOOSE x \in S : \A y \in S : x <= y
         IN  <<least>> \o Ascending(S \ {least})

\* outcomes of lines 382-403 on the modem's answer to AT+CMGL="ALL": the ids
\* of the SmsMessage objects built, or the IndexError of line 392 when the
\* answer ends with a header line
ListOutcomes(stored) ==
    { [raised |-> FALSE, messages |-> <<>>],
      [raised |-> FALSE, messages |-> Ascending(stored)],
      [raised |-> TRUE, messages |-> <<>>] }

\* Fona.__clear_messages_waiting_queue__
clear_messages_waiting_queue(q) == <<>>

\* Fona.get_messages, lines 382-407: the list transaction ends, the answer is
\* scanned and the message-waiting queue cleared
GetMessagesListIo(t) ==
    /\ pc[t] = "gm_list_io"
    /\ modem_access_lock' = Free
    /\ \E outcome \in ListOutcomes(sim) :
          IF outcome.raised
          THEN /\ Goto(t, "except")
               /\ UNCHANGED <<message_waiting_queue, lock, callerVars>>
          ELSE /\ message_waiting_queue' =
                      clear_messages_waiting_queue(message_waiting_queue)
               /\ IF op[t] = "get_messages"
                  THEN /\ Return(t, <<"list", outcome.messages>>)
                       /\ UNCHANGED messages
                  ELSE /\ messages' = [messages EXCEPT ![t] = outcome.messages]
                       /\ ret' = [ret EXCEPT ![t] = <<"count", 0>>]
                       /\ Goto(t, "dms_loop")
                       /\ UNCHANGED <<lock, op, arg>>
    /\ UNCHANGED <<auxVars, serial_connection, sim, update_status_queue,
                   send_message_queue, cacheVars, statusLocals, sendLocals,
                   sendHistory, statusHistory, envHistory>>

\* an except block that raises the fault again
ExceptHandlerReraises(t) ==
    /\ pc[t] = "except"
    /\ Return(t, <<"raised">>)
    /\ UNCHANGED <<auxVars, fonaVars, update_status_queue, send_message_queue,
                   cacheVars, messages, statusLocals, sendLocals, sendHistory,
                   statusHistory, envHistory>>

\* the except blocks of fona_manager.py lines 112-118 and 132-138: the fault
\* is logged, the lock released, the initial value of the result returned
ExceptHandler(t) ==
    /\ pc[t] = "except"
    /\ Return(t, NothingFound(op[t]))
    /\ UNCHANGED <<auxVars, fonaVars, update_status_queue, send_message_queue,
                   cacheVars, messages, statusLocals, sendLocals, sendHistory,
                   statusHistory, envHistory>>

\* Fona.delete_messages, lines 424-431
DeleteMessagesLoop(t) ==
    /\ pc[t] = "dms_loop"
    /\ IF messages[t] = <<>>
       THEN Return(t, ret[t])
       ELSE /\ ret' = [ret EXCEPT ![t] = <<"count", @[2] + 1>>]
            /\ Goto(t, "del_acquire")
            /\ UNCHANGED <<lock, op, arg>>
    /\ UNCHANGED <<auxVars, fonaVars, update_status_queue, send_message_queue, cacheVars,
                   messages, statusLocals, sendLocals, sendHistory,
                   statusHistory, envHistory>>

\* Fona.delete_message: the AT+CMGD transaction ends
DeleteMessageIo(t) ==
    /\ pc[t] = "del_io"
    /\ modem_access_lock' = Free
    /\ LET message_id == IF op[t] = "delete_message" THEN arg[t][1]
                         ELSE Head(messages[t])
       IN  \/ sim' = sim
           \/ serial_connection # None /\ message_id \in sim
                                        /\ sim' = sim \ {message_id}
    /\ IF op[t] = "delete_message"
       THEN /\ Return(t, <<"None">>)
            /\ UNCHANGED messages
       ELSE /\ messages' = [messages EXCEPT ![t] = Tail(@)]
            /\ Goto(t, "dms_loop")
            /\ UNCHANGED <<lock, op, arg, ret>>
    /\ UNCHANGED <<auxVars, serial_connection, message_waiting_queue,
                   update_status_queue, send_message_queue, cacheVars,
                   statusLocals, sendLocals, sendHistory, statusHistory,
                   envHistory>>

\* ------------------------------------------------------- the host loop
\* the thread of the host loop (fona_manager.py lines 343-354)
Host == CHOOSE t \in Callers : TRUE

\* get_messages() has returned to the host loop, delete_messages() is next
HostHoldsList == ret[Host] # <<>> /\ ret[Host][1] = "list"

\* lines 347-348: is_message_waiting() is true and get_messages() is called
HostGetMessages ==
    /\ ~HostHoldsList
    /\ ~QueueEmpty(message_waiting_queue)
    /\ Call(Host, "get_messages")

\* lines 348-349: the list is assigned to MESSAGES, delete_messages() is called
HostDeleteMessages ==
    /\ pc[Host] = "idle"
    /\ HostHoldsList
    /\ MESSAGES' = ret[Host][2]
    /\ op' = [op EXCEPT ![Host] = "delete_messages"]
    /\ arg' = [arg EXCEPT ![Host] = <<>>]
    /\ ret' = [ret EXCEPT ![Host] = <<>>]
    /\ Goto(Host, "lock_acquire")
    /\ UNCHANGED <<command_result, poll_timer, fona_call, readVars, sensorVars, fonaVars,
                   lock, update_status_queue, send_message_queue, cacheVars,
                   messages, statusLocals, sendLocals, sendHistory,
                   statusHistory, envHistory>>

\* ------------------------------------------------ the cached snapshots
\* a caller thread that is in no other operation reads a cached snapshot; the
\* value returned is kept with the holder of the manager lock at that moment
ReadCache(t, operation, snapshot) ==
    /\ pc[t] = "idle"
    /\ ret' = [ret EXCEPT ![t] = <<operation, snapshot, lock>>]
    /\ UNCHANGED <<auxVars, fonaVars, lock, update_status_queue,
                   send_message_queue, cacheVars, pc, op, arg, messages,
                   statusLocals, sendLocals, sendHistory, statusHistory,
                   envHistory>>

\* a battery_condition() that waits for the manager lock
battery_condition_locked(t) ==
    /\ LockAcquire(t)
    /\ ReadCache(t, "battery_condition", current_battery_state)

\* FonaManager.battery_condition, lines 82-90
battery_condition(t) == ReadCache(t, "battery_condition", current_battery_state)

\* FonaManager.signal_strength, lines 72-80
signal_strength(t) == ReadCache(t, "signal_strength", current_signal_strength)

\* ------------------------------------------- Fona, one call at a time
\* What one call of a Fona operation writes to the transport and what it gives
\* back.  Bytes written are the sequence of the pieces the code concatenates.
DOLLAR == "$"
CRLF == "\r\n"
\* the byte 0x1A that ends the body
CTRL_Z == "^Z"

\* fona.py line 618: '${}\r\n'.format(com)
Frame(com) == <<DOLLAR>> \o com \o <<CRLF>>

AT == <<"AT">>
AT_CMGF == <<"AT+CMGF=1">>
AT_CSQ == <<"AT+CSQ">>
AT_CBC == <<"AT+CBC">>
AT_CMGL == <<"AT+CMGL=\"ALL\"">>
AT_CMGD(message_id) == <<"AT+CMGD=", message_id>>
AT_CMGS(cleaned_number) == <<"AT+CMGS=\"", cleaned_number, "\"">>
Commands == {AT, AT_CMGF, AT_CSQ, AT_CBC, AT_CMGL, AT_CMGD("1")}

\* raw lines the modem may put on the wire after AT+CMGL="ALL"
CMGL_MARKER == <<"+", "C", "M", "G", "L", ":">>
CMGL_HEADER == <<"+", "C", "M", "G", "L", ":", " ", "1">>
SMS_TEXT == <<"h", "i">>
\* the body of an SMS that quotes the list marker
SMS_TEXT_MARKED == <<"r", "e", ":", " ", "+", "C", "M", "G", "L", ":">>
ListTranscripts ==
    { <<>>, <<ECHO, OK_LINE>>, <<ECHO, CMGL_HEADER, SMS_TEXT, OK_LINE>>,
      <<ECHO, CMGL_HEADER>>, <<ECHO, CMGL_HEADER, SMS_TEXT, CMGL_HEADER>>,
      <<ECHO, CMGL_HEADER, SMS_TEXT_MARKED, OK_LINE>> }

\* headers SmsMessage is constructed from: a complete one, one cut short, one
\* with a month that is no number, one with the 30th of February
SMS_HEADER ==
    <<"+", "C", "M", "G", "L", ":", " ", "1", ",", "\"", "R", "E", "C", " ",
          "U", "N", "R", "E", "A", "D", "\"", ",", "\"", "+", "1", "2", "0",
          "6", "5", "5", "5", "0", "1", "0", "0", "\"", ",", "\"", "\"", ",",
          "\"", "1", "8", "/", "0", "3", "/", "0", "5", ",", "1", "0", ":",
          "2", "0", ":", "3", "0", "-", "3", "2", "\"">>
SMS_HEADER_CUT ==
    <<"+", "C", "M", "G", "L", ":", " ", "1", ",", "\"", "R", "E", "C", " ",
          "U", "N", "R", "E", "A", "D", "\"", ",", "\"", "+", "1", "2", "0",
          "6">>
SMS_HEADER_GARBLED ==
    <<"+", "C", "M", "G", "L", ":", " ", "1", ",", "\"", "R", "E", "C", " ",
          "U", "N", "R", "E", "A", "D", "\"", ",", "\"", "+", "1", "2", "0",
          "6", "5", "5", "5", "0", "1", "0", "0", "\"", ",", "\"", "\"", ",",
          "\"", "1", "8", "/", "x", "x", "/", "0", "5", ",", "1", "0", ":",
          "2", "0", ":", "3", "0", "-", "3", "2", "\"">>
SMS_HEADER_NO_DAY ==
    <<"+", "C", "M", "G", "L", ":", " ", "1", ",", "\"", "R", "E", "C", " ",
          "U", "N", "R", "E", "A", "D", "\"", ",", "\"", "+", "1", "2", "0",
          "6", "5", "5", "5", "0", "1", "0", "0", "\"", ",", "\"", "\"", ",",
          "\"", "1", "8", "/", "0", "2", "/", "3", "0", ",", "1", "0", ":",
          "2", "0", ":", "3", "0", "-", "3", "2", "\"">>
SmsHeadersMalformed ==
    {NoneStr, <<>>, CMGL_HEADER, SMS_HEADER_CUT, SMS_HEADER_GARBLED, SMS_HEADER_NO_DAY}

\* lines SignalStrength is constructed from that do not hold two numbers
CSQ_SHORT == <<"+", "C", "S", "Q", ":", " ", "1", "4">>
CSQ_GARBLED == <<"+", "C", "S", "Q", ":", " ", "x", ",", "2">>
SignalInputsMalformed == {NoneStr, <<>>, OK_LINE, CSQ_SHORT, CSQ_GARBLED}

\* how the transport behaves during one call: the I/O call that raises (0 when
\* none does) and the raw lines readline() produces
Behaviours(faults, T) == [fault : faults, lines : T]

\* the numbers and bodies Fona.send_message is called with
Numbers == {GOOD_NUMBER, BAD_NUMBER}
Bodies == {"hi", "", None}

\* Fona.__send_command__ as a whole: a fault of the write (1) or of a read (2)
\* is caught by the except of line 636
SendCommandWrites(conn, com, b) ==
    IF conn = None \/ b.fault = 1 THEN <<>> ELSE <<Frame(com)>>
SendCommandReturns(conn, b) ==
    IF conn = None \/ b.fault # 0 THEN <<>> ELSE SendCommandResult(b.lines)

\* a __send_command__ that lets the fault of the transport through
SendCommandCallRaising(conn, com, b) ==
    [op |-> "__send_command__", args |-> <<com, b>>,
     writes |-> SendCommandWrites(conn, com, b),
     result |-> IF conn # None /\ b.fault # 0 THEN <<"raised", "SerialException">>
                ELSE <<"list", SendCommandReturns(conn, b)>>]

SendCommandCall(conn, com, b) ==
    [op |-> "__send_command__", args |-> <<com, b>>,
     writes |-> SendCommandWrites(conn, com, b),
     result |-> <<"list", SendCommandReturns(conn, b)>>]

\* Fona.send_message: fault k is the k-th __write_to_fona__ of the handshake
\* raising; nothing in lines 339-363 catches it
HandshakeWrites(cleaned_number, text) ==
    << <<"\r\r\n">>, AT_CMGS(cleaned_number), <<"\r">>, <<text, CTRL_Z>> >>
SendMessageCall(conn, message_num, text, b) ==
    LET cleaned_number == get_cleaned_phone_number(message_num)
        call == [op |-> "send_message", args |-> <<message_num, text, b>>,
                 writes |-> <<>>, result |-> <<"None">>]
    IN  IF cleaned_number = None \/ text = None THEN call
        ELSE IF conn = None THEN [call EXCEPT !.result = <<"True">>]
        ELSE IF b.fault = 0
        THEN [call EXCEPT !.writes = <<Frame(AT_CMGF)>> \o HandshakeWrites(cleaned_number, text),
                          !.result = <<"True">>]
        ELSE [call EXCEPT !.writes = <<Frame(AT_CMGF)>> \o
                                     SubSeq(HandshakeWrites(cleaned_number, text), 1, b.fault - 1),
                          !.result = <<"raised", "SerialException">>]

\* Fona.get_messages, lines 382-403, on the list __send_command__ returned
Headers(responses) ==
    { i \in 1..Len(responses) : Contains(responses[i], CMGL_MARKER) }
ScanRaises(responses) == \E i \in Headers(responses) : i + 1 > Len(responses)
RECURSIVE ScanFrom(_, _)
ScanFrom(responses, index) ==
    IF index > Len(responses) THEN <<>>
    ELSE IF index \in Headers(responses)
    THEN << <<responses[index], responses[index + 1]>> >> \o ScanFrom(responses, index + 1)
    ELSE ScanFrom(responses, index + 1)
GetMessagesCall(conn, b) ==
    LET responses == SendCommandReturns(conn, b)
        call == [op |-> "get_messages", args |-> <<b>>, writes |-> <<>>,
                 result |-> <<"list", <<>>>>]
    IN  IF conn = None THEN call
        ELSE [call EXCEPT !.writes = <<Frame(AT_CMGF)>> \o SendCommandWrites(conn, AT_CMGL, b),
                          !.result = IF ScanRaises(responses)
                                     THEN <<"raised", "IndexError">>
                                     ELSE <<"list", ScanFrom(responses, 1)>>]

\* str(message_to_delete.message_id) for the headers of ListTranscripts: they
\* hold no metadata, SmsMessage.__init__ leaves message_id None
MessageIdText(message) == "None"

\* Fona.delete_message
DeleteMessageCall(conn, message_id, b) ==
    [op |-> "delete_message", args |-> <<message_id, b>>,
     writes |-> SendCommandWrites(conn, AT_CMGD(message_id), b),
     result |-> <<"None">>]

\* Fona.delete_messages: get_messages, then one delete_message for each
DeleteMessagesCall(conn, b) ==
    LET got == GetMessagesCall(conn, b)
        found == IF got.result[1] = "list" THEN got.result[2] ELSE <<>>
    IN  [op |-> "delete_messages", args |-> <<b>>,
         writes |-> got.writes \o
                    [i \in 1..Len(found) |-> Frame(AT_CMGD(MessageIdText(found[i])))],
         result |-> IF got.result[1] = "raised" THEN got.result
                    ELSE <<"count", Len(found)>>]

\* Fona.get_current_battery_condition
BatteryConditionCall(conn, b) ==
    LET r == SendCommandReturns(conn, b)
    IN  [op |-> "get_current_battery_condition", args |-> <<b>>,
         writes |-> SendCommandWrites(conn, AT_CBC, b),
         result |-> IF BatteryPollRaises(r) THEN <<"raised", "ValueError">>
                    ELSE <<"BatteryCondition", get_current_battery_condition(r)>>]

\* Fona.get_signal_strength
SignalStrengthCall(conn, b) ==
    [op |-> "get_signal_strength", args |-> <<b>>,
     writes |-> SendCommandWrites(conn, AT_CSQ, b),
     result |-> <<"SignalStrength", get_signal_strength(SendCommandReturns(conn, b))>>]

\* SignalStrength.classify_strength on an object holding the given rssi
ClassifyStrengthCall(rssi) ==
    [op |-> "classify_strength", args |-> <<rssi>>, writes |-> <<>>,
     result |-> <<"str", classify_strength([recieved_signal_strength |-> rssi,
                                            bit_error_rate |-> 0])>>]

\* BatteryCondition(response)
BatteryConditionInitCall(response) ==
    [op |-> "BatteryCondition", args |-> <<response>>, writes |-> <<>>,
     result |-> IF BatteryConditionRaises(response)
                THEN <<"raised", "ValueError">>
                ELSE <<"BatteryCondition", BatteryCondition(response)>>]

\* BatteryCondition(response).is_battery_ok()
IsBatteryOkCall(response) ==
    LET self == BatteryCondition(response)
    IN  [op |-> "is_battery_ok", args |-> <<response>>, writes |-> <<>>,
         result |-> <<"bool", is_battery_ok(self), self>>]

\* SignalStrength(command_result)
SignalStrengthInitCall(response) ==
    [op |-> "SignalStrength", args |-> <<response>>, writes |-> <<>>,
     result |-> <<"SignalStrength", SignalStrength(response)>>]

\* SmsMessage(message_header, message_text)
SmsMessageInitCall(message_header, message_text) ==
    [op |-> "SmsMessage", args |-> <<message_header, message_text>>, writes |-> <<>>,
     result |-> <<"SmsMessage", SmsMessage(message_header, message_text)>>]

\* the times at which the SMS of SMS_HEADER is received: on the day it was
\* sent or a later one, at the second of the minute at which it was sent
SMS_SENT_TIME == <<2018, 3, 5, 10, 20, 30>>
ReceivedTimes ==
    { <<SMS_SENT_TIME[1], SMS_SENT_TIME[2], SMS_SENT_TIME[3] + days, hour, minute,
        SMS_SENT_TIME[6]>> :
         days \in 0..MaxDelayDays, hour \in {10, 18, 19}, minute \in {20, 50} }

\* the SmsMessage of SMS_HEADER, received at received_time: minutes_waiting()
MinutesWaitingCall(received_time) ==
    [op |-> "minutes_waiting", args |-> <<SMS_SENT_TIME, received_time>>,
     writes |-> <<>>,
     result |-> <<"int", minutes_waiting([sent_time |-> SMS_SENT_TIME,
                                          received_time |-> received_time])>>]

\* what a call of a Fona operation leaves alone when it is looked at alone
CallFrame ==
    UNCHANGED <<command_result, poll_timer, readVars, hostVars, sensorVars, fonaVars, lock, update_status_queue,
                send_message_queue, cacheVars, pc, callerVars, statusLocals,
                sendLocals, sendHistory, statusHistory, envHistory>>

CallSendCommand ==
    /\ \E com \in Commands :
       \E b \in Behaviours(0..2, BatteryTranscripts \cup SignalTranscripts) :
          fona_call' = SendCommandCall(serial_connection, com, b)
    /\ CallFrame

CallFonaSendMessage ==
    /\ \E message_num \in Numbers, text \in Bodies :
       \E b \in Behaviours(0..4, {<<>>}) :
          fona_call' = SendMessageCall(serial_connection, message_num, text, b)
    /\ CallFrame

CallFonaGetMessages ==
    /\ \E b \in Behaviours(0..2, ListTranscripts) :
          fona_call' = GetMessagesCall(serial_connection, b)
    /\ CallFrame

CallFonaDeleteMessage ==
    /\ \E b \in Behaviours(0..2, {<<>>, <<ECHO, OK_LINE>>}) :
          fona_call' = DeleteMessageCall(serial_connection, "1", b)
    /\ CallFrame

CallFonaDeleteMessages ==
    /\ \E b \in Behaviours(0..2, ListTranscripts) :
          fona_call' = DeleteMessagesCall(serial_connection, b)
    /\ CallFrame

CallBatteryCondition ==
    /\ \E b \in Behaviours(0..2, BatteryTranscripts) :
          fona_call' = BatteryConditionCall(serial_connection, b)
    /\ CallFrame

CallSignalStrength ==
    /\ \E b \in Behaviours(0..2, SignalTranscripts) :
          fona_call' = SignalStrengthCall(serial_connection, b)
    /\ CallFrame

CallBatteryConditionInit ==
    /\ \E response \in BatteryInputs :
          fona_call' = BatteryConditionInitCall(response)
    /\ CallFrame

CallIsBatteryOk ==
    /\ \E response \in BatteryInputs :
          /\ ~BatteryConditionRaises(response)
          /\ fona_call' = IsBatteryOkCall(response)
    /\ CallFrame

CallSignalStrengthInit ==
    /\ \E response \in SignalInputsMalformed \cup {CSQ_LINE} :
          fona_call' = SignalStrengthInitCall(response)
    /\ CallFrame

CallSmsMessageInit ==
    /\ \E message_header \in SmsHeadersMalformed \cup {SMS_HEADER} :
          fona_call' = SmsMessageInitCall(message_header, SMS_TEXT)
    /\ CallFrame

CallClassifyStrength ==
    /\ \E rssi \in 0..MaxRssi : fona_call' = ClassifyStrengthCall(rssi)
    /\ CallFrame

CallMinutesWaiting ==
    /\ \E received_time \in ReceivedTimes :
          fona_call' = MinutesWaitingCall(received_time)
    /\ CallFrame

\* ------------------------------- Fona.__send_command__, one step at a time
\* The transport holds complete lines and, behind them, bytes that no newline
\* has followed yet.  serial.Serial('/dev/ttyUSB0', 9600) has no read timeout
\* (fona_manager.py line 319): readline() returns once a newline is there.
LINE == "line"
BYTES == "bytes"

ReadLoopFrame ==
    UNCHANGED <<command_result, poll_timer, fona_call, hostVars, sensorVars, serial_connection,
                message_waiting_queue, sim, lock, update_status_queue,
                send_message_queue, cacheVars, callerVars, statusLocals,
                sendLocals, sendHistory, statusHistory, envHistory>>

\* the modem puts a line, the start of a line, or the end of a started line
ModemSends ==
    /\ serial_connection # None
    /\ IF in_waiting # <<>> /\ in_waiting[Len(in_waiting)] = BYTES
       THEN in_waiting' = [in_waiting EXCEPT ![Len(in_waiting)] = LINE]
       ELSE /\ Len(in_waiting) < MaxInWaiting
            /\ \E sent \in {LINE, BYTES} : in_waiting' = Append(in_waiting, sent)
    /\ UNCHANGED <<pc, modem_access_lock, modem_reponses>>
    /\ ReadLoopFrame

\* the labels of a __send_command__ a thread called by itself (sc) and of the
\* one __set_sms_mode__ makes inside Fona.send_message (sms)
ScLabel == [acquire |-> "sc_acquire", write |-> "sc_write",
            test |-> "sc_test", readline |-> "sc_readline"]
SmsLabel == [acquire |-> "sms_acquire", write |-> "sms_write",
             test |-> "sms_test", readline |-> "sms_readline"]
InSetSmsMode(t) == pc[t] \in {SmsLabel[stage] : stage \in DOMAIN SmsLabel}
AtStage(t, stage) == pc[t] \in {ScLabel[stage], SmsLabel[stage]}
StageLabel(t, stage) == IF InSetSmsMode(t) THEN SmsLabel[stage] ELSE ScLabel[stage]

\* a thread calls __send_command__
send_command_call(t) ==
    /\ pc[t] = "idle"
    /\ Goto(t, "sc_acquire")
    /\ UNCHANGED <<modem_access_lock, readVars>>
    /\ ReadLoopFrame

\* lines 615-616
send_command_acquire(t) ==
    /\ AtStage(t, "acquire")
    /\ ModemLockAcquire(t)
    /\ modem_access_lock' = t
    /\ modem_reponses' = <<>>
    /\ Goto(t, StageLabel(t, "write"))
    /\ UNCHANGED in_waiting
    /\ ReadLoopFrame

\* the return of line 635 or, after a fault, of line 640; send_message goes
\* on to its handshake (line 346)
SendCommandReturn(t) ==
    /\ modem_access_lock' = Free
    /\ modem_reponses' = <<>>
    /\ Goto(t, IF InSetSmsMode(t) THEN "hs_first" ELSE "idle")

\* lines 618-623: the write, which may raise
send_command_write(t) ==
    /\ AtStage(t, "write")
    /\ \E raised \in IF serial_connection = None THEN {FALSE} ELSE BOOLEAN :
          IF raised THEN SendCommandReturn(t)
          ELSE /\ Goto(t, StageLabel(t, "test"))
               /\ UNCHANGED <<modem_access_lock, modem_reponses>>
    /\ UNCHANGED in_waiting
    /\ ReadLoopFrame

\* line 626: the test of the while
send_command_test(t) ==
    /\ AtStage(t, "test")
    /\ IF serial_connection # None /\ in_waiting # <<>>
       THEN /\ Goto(t, StageLabel(t, "readline"))
            /\ UNCHANGED <<modem_access_lock, modem_reponses>>
       ELSE SendCommandReturn(t)
    /\ UNCHANGED in_waiting
    /\ ReadLoopFrame

\* lines 627-630: readline() returns the oldest line, or raises; it does not
\* return while the transport holds only bytes without a newline.  Of a long
\* answer the model keeps the first MaxLines lines.
send_command_readline(t) ==
    /\ AtStage(t, "readline")
    /\ in_waiting # <<>>
    /\ Head(in_waiting) = LINE
    /\ \E raised \in BOOLEAN :
          IF raised THEN SendCommandReturn(t) /\ UNCHANGED in_waiting
          ELSE /\ in_waiting' = Tail(in_waiting)
               /\ modem_reponses' = IF Len(modem_reponses) < MaxLines
                                    THEN Append(modem_reponses, LINE)
                                    ELSE modem_reponses
               /\ Goto(t, StageLabel(t, "test"))
               /\ UNCHANGED modem_access_lock
    /\ ReadLoopFrame

\* the steps of a __send_command__ in progress on thread t
SendCommandStep(t) ==
    \/ send_command_acquire(t)
    \/ send_command_write(t)
    \/ send_command_test(t)
    \/ send_command_readline(t)

\* ------------------------------- Fona.send_message, one step at a time
\* lines 339-345: a number and a body that pass the checks; __set_sms_mode__
\* is the first thing that touches the modem
fona_send_message_call(t) ==
    /\ pc[t] = "idle"
    /\ Goto(t, SmsLabel["acquire"])
    /\ UNCHANGED <<modem_access_lock, readVars>>
    /\ ReadLoopFrame

\* what __read_from_fona__ can leave unread: it takes bytes until none waits
\* or its time is up (lines 593-599)
ReadFromFona(waiting) == { SubSeq(waiting, n + 1, Len(waiting)) : n \in 0..Len(waiting) }

\* line 346: the first write of the handshake; a transport fault propagates
handshake_first_write(t) ==
    /\ pc[t] = "hs_first"
    /\ \E raised \in IF serial_connection = None THEN {FALSE} ELSE BOOLEAN :
          Goto(t, IF raised THEN "idle" ELSE "hs_mid")
    /\ UNCHANGED <<modem_access_lock, readVars>>
    /\ ReadLoopFrame

\* lines 347-358: the reads and writes in the middle of the handshake
handshake_middle(t) ==
    /\ pc[t] = "hs_mid"
    /\ \E raised \in IF serial_connection = None THEN {FALSE} ELSE BOOLEAN :
          /\ Goto(t, IF raised THEN "idle" ELSE "hs_last")
          /\ in_waiting' \in IF serial_connection = None THEN {in_waiting}
                             ELSE ReadFromFona(in_waiting)
    /\ UNCHANGED <<modem_access_lock, modem_reponses>>
    /\ ReadLoopFrame

\* lines 360-363: the last read, and the return
handshake_last_read(t) ==
    /\ pc[t] = "hs_last"
    /\ in_waiting' \in IF serial_connection = None THEN {in_waiting}
                       ELSE ReadFromFona(in_waiting)
    /\ Goto(t, "idle")
    /\ UNCHANGED <<modem_access_lock, modem_reponses>>
    /\ ReadLoopFrame

\* the steps of a handshake in progress on thread t
HandshakeStep(t) ==
    \/ handshake_first_write(t)
    \/ handshake_middle(t)
    \/ handshake_last_read(t)

\* ------------------------------------------------------------ GasSensor
\* what GasSensor.__read__ gives back and leaves in enabled, on a Raspberry
\* Pi: None when the sensor is disabled or the bus raises (which disables
\* it), else the byte read
ReadOutcomes ==
    {[value |-> <<>>, enabled |-> FALSE]} \cup
    IF enabled
    THEN {[value |-> <<raw_value>>, enabled |-> TRUE] : raw_value \in 0..MaxReading}
    ELSE {}

\* an alarm that needs a reading below the all-clear level to go off
is_gas_detected_below_all_clear(detected, value) ==
    (detected /\ value >= DEFAULT_ALL_CLEAR_THRESHOLD)
       \/ value >= DEFAULT_TRIGGER_THRESHOLD

\* GasSensor.update, lines 128-131, with the default thresholds
is_gas_detected_after(detected, value) ==
    (detected /\ value > DEFAULT_ALL_CLEAR_THRESHOLD)
       \/ value >= DEFAULT_TRIGGER_THRESHOLD

\* GasSensor.update
GasSensor_update ==
    /\ \E read \in ReadOutcomes :
          /\ current_value' = read.value
          /\ enabled' = read.enabled
          /\ is_gas_detected' =
                IF read.value = <<>> \/ ~read.enabled THEN is_gas_detected
                ELSE is_gas_detected_after(is_gas_detected, read.value[1])
    /\ UNCHANGED <<command_result, poll_timer, fona_call, readVars, hostVars,
                   fonaVars, lock, update_status_queue, send_message_queue,
                   cacheVars, pc, callerVars, statusLocals, sendLocals,
                   sendHistory, statusHistory, envHistory>>

\* ------------------------------------------------------------ behaviours
DriverStep ==
    \/ update
    \/ ProcessStatusAcquire
    \/ ProcessStatusLoop
    \/ BatteryPollIo
    \/ update_battery_state
    \/ SignalPollIo
    \/ ProcessSendAcquire
    \/ ProcessSendLoop
    \/ SetSmsModeIo
    \/ Handshake
    \/ SendCommandAcquire(Driver)

\* the steps of an operation in progress on a caller thread
CallerStep(t) ==
    \/ ManagerLockAcquire(t)
    \/ SendMessagePut(t)
    \/ GetMessagesStart(t)
    \/ GetMessagesModeIo(t)
    \/ GetMessagesListIo(t)
    \/ ExceptHandler(t)
    \/ DeleteMessagesLoop(t)
    \/ DeleteMessageIo(t)
    \/ SendCommandAcquire(t)

\* every operation, every producer
Next ==
    \/ DriverStep
    \/ \E t \in Callers : CallSendMessage(t, MixMsgs)
    \/ \E t \in Callers : CallGetMessages(t)
    \/ \E t \in Callers : CallDeleteMessages(t)
    \/ \E t \in Callers : CallDeleteMessage(t)
    \/ \E t \in Callers : CallerStep(t)
    \/ trigger_check_battery(MixTriggers)
    \/ trigger_check_signal(MixTriggers)
    \/ poll_for_messages
    \/ ring_indicator_pulsed
    \/ SmsArrives

Spec == Init /\ [][Next]_vars

\* update(), the two timers firing often, one caller of send_message
NextStatus ==
    \/ DriverStep
    \/ trigger_check_battery(MaxTriggers)
    \/ trigger_check_signal(MaxTriggers)
    \/ \E t \in Callers : CallSendMessage(t, MixMsgs)
    \/ \E t \in Callers : ManagerLockAcquire(t)
    \/ \E t \in Callers : SendMessagePut(t)

SpecStatus == Init /\ [][NextStatus]_vars

\* the host loop keeps calling update() and every thread keeps running
SpecStatusLive ==
    /\ SpecStatus
    /\ WF_vars(DriverStep)
    /\ \A t \in Callers : WF_vars(ManagerLockAcquire(t) \/ SendMessagePut(t))

\* update(), the two timers, a thread that reads the cached snapshots
NextRead ==
    \/ DriverStep
    \/ trigger_check_battery(MaxTriggers)
    \/ trigger_check_signal(MixTriggers)
    \/ \E t \in Callers : CallSendMessage(t, MixMsgs)
    \/ \E t \in Callers : ManagerLockAcquire(t)
    \/ \E t \in Callers : SendMessagePut(t)
    \/ \E t \in Callers : battery_condition(t)
    \/ \E t \in Callers : signal_strength(t)

SpecRead == Init /\ [][NextRead]_vars

\* the operations of Fona, each called on its own with every behaviour of
\* the transport
NextFona ==
    \/ CallSendCommand
    \/ CallFonaSendMessage
    \/ CallFonaGetMessages
    \/ CallFonaDeleteMessage
    \/ CallFonaDeleteMessages
    \/ CallBatteryCondition
    \/ CallSignalStrength
    \/ CallClassifyStrength
    \/ CallBatteryConditionInit
    \/ CallIsBatteryOk
    \/ CallSignalStrengthInit
    \/ CallSmsMessageInit
    \/ CallMinutesWaiting

SpecFona == Init /\ [][NextFona]_vars

\* threads that call __send_command__ and Fona.send_message, the modem sending
\* what and when it likes; a thread inside a call keeps running
NextCommand ==
    \/ ModemSends
    \/ \E t \in Threads : send_command_call(t)
    \/ \E t \in Threads : fona_send_message_call(t)
    \/ \E t \in Threads : SendCommandStep(t)
    \/ \E t \in Threads : HandshakeStep(t)

SpecCommand ==
    /\ Init
    /\ [][NextCommand]_vars
    /\ \A t \in Threads : WF_vars(SendCommandStep(t) \/ HandshakeStep(t))

\* the poll timer firing without end, the ring indicator, threads that fetch
\* and delete the stored messages
NextPoll ==
    \/ poll_timer_fires
    \/ ring_indicator_pulsed
    \/ SmsArrives
    \/ \E t \in Callers : CallGetMessages(t)
    \/ \E t \in Callers : CallDeleteMessages(t)
    \/ \E t \in Callers : ManagerLockAcquire(t)
    \/ \E t \in Callers : GetMessagesStart(t)
    \/ \E t \in Callers : SendCommandAcquire(t)
    \/ \E t \in Callers : GetMessagesModeIo(t)
    \/ \E t \in Callers : GetMessagesListIo(t)
    \/ \E t \in Callers : ExceptHandler(t)
    \/ \E t \in Callers : DeleteMessagesLoop(t)
    \/ \E t \in Callers : DeleteMessageIo(t)

\* a Timer that has been started fires
SpecPoll == Init /\ [][NextPoll]_vars /\ WF_vars(poll_timer_fires)

\* update(), callers of send_message, the two timers firing seldom
NextSend ==
    \/ DriverStep
    \/ \E t \in Callers : CallSendMessage(t, MaxMsgs)
    \/ \E t \in Callers : ManagerLockAcquire(t)
    \/ \E t \in Callers : SendMessagePut(t)
    \/ trigger_check_battery(MixTriggers)
    \/ trigger_check_signal(MixTriggers)

SpecSend == Init /\ [][NextSend]_vars

\* the host loop keeps calling update() and every thread keeps running
SpecSendLive ==
    /\ SpecSend
    /\ WF_vars(DriverStep)
    /\ \A t \in Callers : WF_vars(ManagerLockAcquire(t) \/ SendMessagePut(t))

\* the host loop fetching and deleting SMS while the modem stores new ones and
\* the ring indicator and the poll timer put their markers; update(), which
\* the loop calls after delete_messages() has returned, touches neither the
\* stored SMS nor MESSAGES
NextHost ==
    \/ HostGetMessages
    \/ HostDeleteMessages
    \/ ManagerLockAcquire(Host)
    \/ GetMessagesStart(Host)
    \/ SendCommandAcquire(Host)
    \/ GetMessagesModeIo(Host)
    \/ GetMessagesListIo(Host)
    \/ ExceptHandler(Host)
    \/ DeleteMessagesLoop(Host)
    \/ DeleteMessageIo(Host)
    \/ SmsArrives
    \/ ring_indicator_pulsed
    \/ poll_for_messages

SpecHost == Init /\ [][NextHost]_vars

\* the gas sensor polled again and again
NextSensor == GasSensor_update

SpecSensor == Init /\ [][NextSensor]_vars

\* ================================================================ claims
InQueue(id) == \E i \in 1..Len(send_message_queue) : send_message_queue[i].id = id
InRetryList(id) == \E i \in 1..Len(messages_to_retry) : messages_to_retry[i].id = id
NoDuplicates(xs) == \A i, j \in 1..Len(xs) : i # j => xs[i] # xs[j]
InDrain == pc[Driver] \in {"psm_loop", "mode_acquire", "mode_io", "hs_io"}

\* the step in which a send attempt of message_to_send ends with a fault
SendFails == pc[Driver] = "hs_io" /\ hSendResult' = "raised"
\* the step in which the outbound drain, and with it update(), returns
DrainReturns == InDrain /\ pc'[Driver] = "idle"

\* C1: a request whose send attempts all raise is handed to Fona.send_message
\* exactly as often as its retry budget says: when a failed attempt leaves it
\* neither in the queue nor in the retry list it has been attempted budget
\* times, and before that fewer times.
C1_ExactlyBudgetAttempts ==
    [][SendFails =>
         LET m == message_to_send
         IN  IF InQueue(m.id)' \/ InRetryList(m.id)'
             THEN m.attempts < m.budget
             ELSE m.attempts = m.budget]_vars

\* C6: a failed send decrements the retry count by one; with a count still
\* above 0 the request, carrying that count, is kept for the retry (in the
\* retry list while the drain runs, at the back of the queue once update()
\* has returned); with a count of 0 it is kept nowhere.
C6_FailedSendRequeued ==
    [][SendFails =>
         LET m == message_to_send
             count == m.msg[3] - 1
             kept == [m EXCEPT !.msg[3] = count]
         IN  IF count > 0
             THEN IF pc'[Driver] = "idle"
                  THEN /\ send_message_queue' # <<>>
                       /\ send_message_queue'[Len(send_message_queue')] = kept
                  ELSE /\ messages_to_retry' # <<>>
                       /\ messages_to_retry'[Len(messages_to_retry')] = kept
             ELSE ~InQueue(m.id)' /\ ~InRetryList(m.id)']_vars

\* C7: when the outbound drain returns, every request that was queued when it
\* began has been handed to Fona.send_message in it.
C7_DrainAttemptsAll ==
    [][DrainReturns => Range(hDrainStart) \subseteq Range(hDrainLog)]_vars

\* C8: the requests handed to Fona.send_message in one drain are, in order,
\* the first requests of the queue the drain found.
C8_DrainIsFifo ==
    /\ Len(hDrainLog) <= Len(hDrainStart)
    /\ hDrainLog = SubSeq(hDrainStart, 1, Len(hDrainLog))

C8_Witness == Len(hDrainLog) = 2 /\ hDrainLog[1] # hDrainLog[2]

\* C9: no request is handed to Fona.send_message twice in one drain, and
\* while the drain loop runs no request it has attempted is in the queue.
C9_OneAttemptPerDrain ==
    /\ NoDuplicates(hDrainLog)
    /\ InDrain => \A i \in 1..Len(hDrainLog) : ~InQueue(hDrainLog[i])

\* a send has failed, update() has returned, and the queue holds requests
C9_Witness ==
    /\ pc[Driver] = "idle"
    /\ hSendResult = "raised"
    /\ send_message_queue # <<>>

\* ------------------------------------------------------------ concurrency
\* thread t is writing to or reading from the serial transport
InTransaction(t) ==
    serial_connection # None /\ pc[t] \in CommandIoLabels \cup {"hs_io"}

\* thread t is between an acquire and the release of the manager lock
InCritical(t) ==
    pc[t] \in {"psu_loop", "bat_acquire", "bat_io", "bat_parse", "sig_acquire", "sig_io",
               "psm_loop", "mode_acquire", "mode_io", "hs_io",
               "sm_put", "gm_start", "gm_mode_acquire", "gm_mode_io",
               "gm_list_acquire", "gm_list_io", "except", "dms_loop",
               "del_acquire", "del_io"}

OperationOf(t) == IF t = Driver THEN "update" ELSE op[t]

\* a step of an operation in progress on thread t
ThreadStep(t) == IF t = Driver THEN pc[Driver] # "idle" /\ DriverStep ELSE CallerStep(t)

\* C2: at most one thread at a time is inside a modem transaction.
C2_OneTransactionAtATime == Cardinality({t \in Threads : InTransaction(t)}) <= 1

C2_Witness ==
    /\ InTransaction(Driver)
    /\ pc[Driver] = "hs_io"
    /\ \E t \in Callers : pc[t] = "lock_acquire" /\ op[t] = "get_messages"

\* C3: when the status drain of an update() returns, each poll has run at most
\* once in it, and exactly once if triggers of both kinds were pending when it
\* began; the two flags are false when an update() begins.
StatusDrainReturns == pc[Driver] \in {"psu_loop", "bat_parse"} /\ pc'[Driver] = "psm_acquire"

C3_OnePollPerKind ==
    [][/\ StatusDrainReturns =>
             /\ \A k \in Kinds : hPolls[k] <= 1
             /\ hPending = Kinds => \A k \in Kinds : hPolls[k] = 1
       /\ pc'[Driver] = "psu_acquire" => ~battery_checked' /\ ~signal_checked']_vars

\* C4: no thread asks for a lock it holds, the manager lock is never asked for
\* by the holder of the modem access lock, each lock is held by a thread that
\* is inside the region the lock protects, and each thread with an operation
\* in progress can take a step or waits for a lock whose holder can.
C4_NoDeadlock ==
    /\ \A t \in Threads :
          /\ pc[t] \in ManagerAcquireLabels => lock # t /\ modem_access_lock # t
          /\ pc[t] \in CommandAcquireLabels => modem_access_lock # t
    /\ lock # Free => InCritical(lock)
    /\ modem_access_lock # Free => pc[modem_access_lock] \in CommandIoLabels
    /\ \A t \in Threads :
          pc[t] # "idle" =>
             \/ ENABLED ThreadStep(t)
             \/ /\ pc[t] \in ManagerAcquireLabels
                /\ lock # Free
                /\ ENABLED ThreadStep(lock)
             \/ /\ pc[t] \in CommandAcquireLabels
                /\ modem_access_lock # Free
                /\ ENABLED ThreadStep(modem_access_lock)

C4_Witness ==
    /\ pc[Driver] = "bat_io"
    /\ modem_access_lock = Driver
    /\ \E t \in Callers : pc[t] = "lock_acquire"

\* C5: each trigger a timer enqueued is dequeued in the end, the queue loses a
\* trigger only to the get() of the status drain, and an update() that has
\* dequeued a trigger of a kind has started a poll of that kind.
Queued(k) ==
    Cardinality({i \in 1..Len(update_status_queue) : update_status_queue[i] = k})
Dequeued(k) == hEnq[k] - Queued(k)

C5_TriggersServed ==
    /\ [](\A k \in hCycleDeq : hPolls[k] >= 1)
    /\ [][\A k \in Kinds : Queued(k)' < Queued(k) =>
             pc[Driver] = "psu_loop" /\ k \in hCycleDeq']_vars
    /\ \A k \in Kinds : \A n \in 1..MaxTriggers :
          (hEnq[k] >= n) ~> (Dequeued(k) >= n)

\* a trigger that was enqueued while the drain ran has been dequeued by it
C5_Witness == \E k \in Kinds : k \in hCycleDeq /\ k \notin hPending

\* C10 as stated: a thread in send_message never stands at the acquire while a
\* thread in update(), get_messages() or a delete operation holds the lock.
C10_SendMessageNeverWaits ==
    \A t \in Callers :
       op[t] = "send_message" /\ pc[t] = "lock_acquire" =>
          \A u \in Threads \ {t} : lock = u => OperationOf(u) = "send_message"

\* C10 as amended: the steps of send_message do no modem I/O and change
\* nothing but the lock and the outbound queue; the acquire is taken only while
\* no other thread is inside a region of the manager lock, and the put appends
\* the request to the queue, releases the lock and returns.
C10_SendMessageEnqueuesUnderLock ==
    [][\A t \in Callers :
          op[t] = "send_message" /\ pc'[t] # pc[t] =>
             /\ ~InTransaction(t) /\ ~InTransaction(t)'
             /\ UNCHANGED <<fonaVars, cacheVars, update_status_queue>>
             /\ pc[t] = "lock_acquire" =>
                   /\ \A u \in Threads \ {t} : ~InCritical(u)
                   /\ UNCHANGED send_message_queue
             /\ pc[t] = "sm_put" =>
                   /\ Len(send_message_queue') = Len(send_message_queue) + 1
                   /\ SubSeq(send_message_queue', 1, Len(send_message_queue))
                         = send_message_queue
                   /\ send_message_queue'[Len(send_message_queue')].msg = arg[t]
                   /\ lock' = Free
                   /\ pc'[t] = "idle"]_vars

C10_Witness ==
    \E t \in Callers :
       /\ op[t] = "send_message"
       /\ pc[t] = "sm_put"
       /\ pc[Driver] = "psm_acquire"

\* ------------------------------------------------------- cached snapshots
\* thread t has just been given the value of the named read operation
Reads(t, operation) ==
    /\ ret'[t] # ret[t]
    /\ Len(ret'[t]) = 3
    /\ ret'[t][1] = operation

\* C11: a thread that is in no other operation can complete battery_condition()
\* and signal_strength() in every state, whoever holds the manager lock; no
\* lock changes hands in the read; the value is the cached snapshot, and a
\* cached snapshot changes only in the step that completes a poll of its kind,
\* to the snapshot of that poll's answer.
C11_ReadsNeverBlock ==
    /\ [](\A t \in Callers :
            pc[t] = "idle" => ENABLED battery_condition(t) /\ ENABLED signal_strength(t))
    /\ [][\A t \in Callers :
            /\ Reads(t, "battery_condition") =>
                  /\ ret'[t][2] = current_battery_state
                  /\ UNCHANGED <<lock, modem_access_lock, pc>>
            /\ Reads(t, "signal_strength") =>
                  /\ ret'[t][2] = current_signal_strength
                  /\ UNCHANGED <<lock, modem_access_lock, pc>>]_vars
    /\ [][/\ current_battery_state' # current_battery_state =>
               /\ pc[Driver] = "bat_parse"
               /\ ~BatteryPollRaises(command_result)
               /\ current_battery_state' = get_current_battery_condition(command_result)
          /\ current_signal_strength' # current_signal_strength =>
               /\ pc[Driver] = "sig_io"
               /\ \E r \in CommandResults(serial_connection, SignalTranscripts) :
                     current_signal_strength' = get_signal_strength(r)]_vars

\* a read made while update() held the lock returned the snapshot of the poll
\* completed before, and the next poll is under way
C11_Witness ==
    \E t \in Callers :
       /\ Len(ret[t]) = 3
       /\ ret[t][1] = "battery_condition"
       /\ ret[t][3] = Driver
       /\ ~ret[t][2].error_state
       /\ ret[t][2] = current_battery_state
       /\ pc[Driver] = "bat_parse"

\* ---------------------------------------------------------------- producers
\* what a producer callback leaves alone: both locks, the transport and the
\* modem, the cached snapshots, the outbound queue, every thread's position
ProducerFrame ==
    UNCHANGED <<lock, modem_access_lock, serial_connection, sim, cacheVars,
                send_message_queue, pc, callerVars, statusLocals, sendLocals>>

\* C12: a step in which a trigger callback fires appends exactly one tag to the
\* status queue, a step in which the poll timer or the ring indicator fires
\* appends exactly one marker to the message-waiting queue, and either step
\* changes neither the other queue nor anything of ProducerFrame.
C12_ProducersOnlyEnqueue ==
    [][/\ hEnq' # hEnq =>
             /\ \E k \in Kinds : update_status_queue' = Append(update_status_queue, k)
             /\ UNCHANGED message_waiting_queue
             /\ ProducerFrame
       /\ hMarkers' # hMarkers =>
             /\ \E marker \in {"POLL", "RI:18"} :
                   message_waiting_queue' = Append(message_waiting_queue, marker)
             /\ UNCHANGED update_status_queue
             /\ ProducerFrame]_vars

\* a battery trigger has fired while update() held both locks for the signal
\* poll, and a marker callback has fired as well
C12_Witness ==
    /\ pc[Driver] = "sig_io"
    /\ modem_access_lock = Driver
    /\ CHECK_BATTERY \notin hPending
    /\ Queued(CHECK_BATTERY) = 1
    /\ hMarkers = 1
    /\ Len(message_waiting_queue) = 2

\* ------------------------------------------------- Fona, one call at a time
PublicOperations ==
    {"send_message", "get_messages", "delete_message", "delete_messages",
     "get_current_battery_condition", "get_signal_strength"}

\* the pieces an AT command begins with
CommandHeads == { com[1] : com \in Commands } \cup { AT_CMGS(GOOD_NUMBER)[1] }
IsCommand(w) == \E j \in DOMAIN w : w[j] \in CommandHeads
Framed(w) == Len(w) >= 3 /\ w[1] = DOLLAR /\ w[Len(w)] = CRLF
IsCmgs(w) == w[1] = AT_CMGS(GOOD_NUMBER)[1]
IsBody(w) == w[Len(w)] = CTRL_Z

\* C13: a call of Fona.send_message whose body is None or empty, or whose
\* number cannot be cleaned, writes no AT+CMGS command and no body.
C13_NoEmptyOrUnaddressedSend ==
    (/\ fona_call.op = "send_message"
     /\ \/ fona_call.args[2] \in {None, ""}
        \/ get_cleaned_phone_number(fona_call.args[1]) = None)
    => \A i \in DOMAIN fona_call.writes :
          ~IsCmgs(fona_call.writes[i]) /\ ~IsBody(fona_call.writes[i])

\* C14: no call of a public operation of Fona ends with an exception.
C14_NoFaultEscapes ==
    fona_call.op \in PublicOperations => fona_call.result[1] # "raised"

\* C16: __send_command__ returns a list: the empty list when no transport is
\* attached or an I/O call raised, otherwise the lines read, each stripped,
\* without the first.
C16_SendCommandReturnsList ==
    fona_call.op = "__send_command__" =>
       LET b == fona_call.args[2]
           returned == fona_call.result[2]
       IN  /\ fona_call.result[1] = "list"
           /\ serial_connection = None \/ b.fault # 0 => returned = <<>>
           /\ serial_connection # None /\ b.fault = 0 =>
                 /\ Len(returned) = IF b.lines = <<>> THEN 0 ELSE Len(b.lines) - 1
                 /\ \A i \in 1..Len(returned) : returned[i] = Strip(b.lines[i + 1])

\* a read of the transport has raised during __send_command__
C16_Witness ==
    /\ fona_call.op = "__send_command__"
    /\ serial_connection # None
    /\ fona_call.args[2].fault = 2
    /\ fona_call.args[2].lines # <<>>
    /\ fona_call.result = <<"list", <<>>>>

\* C17: every AT command written to the transport is framed.
C17_EveryCommandFramed ==
    \A i \in DOMAIN fona_call.writes :
       IsCommand(fona_call.writes[i]) => Framed(fona_call.writes[i])

\* ----------------------------------------------------- faults in the manager
\* a fault of Fona is on its way through the operation of thread t
FaultIn(t) ==
    IF t = Driver
    THEN \/ pc[Driver] = "bat_parse" /\ BatteryPollRaises(command_result)
         \/ pc[Driver] = "hs_io" /\ hSendResult' = "raised"
    ELSE pc[t] = "except"

\* C15: no operation of the manager ends by raising; the step that handles a
\* fault of Fona releases the manager lock and returns: get_messages() the empty
\* list, delete_messages() 0, and update() goes on to its next phase or
\* returns.
C15_ManagerAbsorbsFaults ==
    /\ [](\A t \in Threads : ret[t] # <<"raised">>)
    /\ [][\A t \in Callers :
            FaultIn(t) /\ pc'[t] # pc[t] =>
               /\ pc'[t] = "idle"
               /\ lock' = Free
               /\ op[t] = "get_messages" => ret'[t] = <<"list", <<>>>>
               /\ op[t] = "delete_messages" => ret'[t] = <<"count", 0>>]_vars
    /\ [][FaultIn(Driver) /\ pc'[Driver] # pc[Driver] =>
            \/ pc'[Driver] = "psm_acquire" /\ lock' = Free
            \/ pc'[Driver] = "idle" /\ lock' = Free
            \/ pc'[Driver] = "psm_loop" /\ lock' = Driver]_vars

\* the scan of Fona.get_messages has raised inside delete_messages()
C15_Witness ==
    \E t \in Callers :
       /\ pc[t] = "except"
       /\ op[t] = "delete_messages"
       /\ lock = t
       /\ sim # {}

\* ------------------------------------------------- the message-waiting queue
\* Fona.is_message_waiting
is_message_waiting == ~QueueEmpty(message_waiting_queue)

\* get_messages() of the manager returns to thread t
GetMessagesReturns(t) ==
    /\ op[t] = "get_messages"
    /\ pc[t] \in {"gm_start", "gm_list_io", "except"}
    /\ pc'[t] = "idle"

\* C18: when get_messages() returns and no marker has been enqueued since the
\* construction, the message-waiting queue is empty and is_message_waiting()
\* is false.
C18_QueueClearedByGetMessages ==
    [][\A t \in Callers :
          GetMessagesReturns(t) /\ hMarkers = 0 /\ hMarkers' = 0 =>
             message_waiting_queue' = <<>> /\ ~is_message_waiting']_vars

\* ------------------------------------------------------ the battery snapshot
\* the battery poll of this update() ends: its answer has been read
BatteryPollEnds == pc[Driver] = "bat_parse" /\ pc'[Driver] # "bat_parse"

\* C20: when the battery poll of an update() ends, the cached BatteryCondition
\* is the snapshot of that poll's answer, the error snapshot when the answer
\* could not be parsed.
C20_PollReplacesSnapshot ==
    [][BatteryPollEnds =>
          current_battery_state' =
             IF BatteryPollRaises(command_result)
             THEN BatteryCondition(NoneStr)
             ELSE get_current_battery_condition(command_result)]_vars

\* C19: the poll timer is armed in every state; whenever the message-waiting
\* queue is empty, is_message_waiting() becomes true again, and whenever an SMS
\* is stored on the modem, is_message_waiting() becomes true, with no help
\* from the ring indicator.
C19_PollTimerSignals ==
    /\ [](poll_timer = ARMED)
    /\ (~is_message_waiting) ~> is_message_waiting
    /\ (sim # {}) ~> is_message_waiting

\* the stored SMS has been fetched, which cleared the queue; the ring
\* indicator has never fired, and a marker is queued again
C19_Witness ==
    /\ hMarkers = 0
    /\ sim # {}
    /\ is_message_waiting
    /\ \E t \in Callers :
          /\ pc[t] = "idle"
          /\ Len(ret[t]) = 2
          /\ ret[t][1] = "list"
          /\ ret[t][2] # <<>>


\* ------------------------------------------------------- signal strength
\* C21: get_signal_strength() on a transport that answers AT+CSQ with the line
\* '+CSQ: 14,2' and raises nothing returns rssi 14 and bit error rate 2, which
\* classify_strength() calls "OK".
C21_SignalStrengthParsed ==
    /\ fona_call.op = "get_signal_strength"
    /\ serial_connection # None
    /\ fona_call.args[1].fault = 0
    /\ \E i \in 1..Len(fona_call.args[1].lines) : fona_call.args[1].lines[i] = CSQ_LINE
    => /\ fona_call.result[2].recieved_signal_strength = 14
       /\ fona_call.result[2].bit_error_rate = 2
       /\ classify_strength(fona_call.result[2]) = "OK"

\* C22: classify_strength() maps rssi 0 to "None", 1..4 to "Poor", 5..9 to
\* "Marginal", 10..14 to "OK", 15..19 to "Good" and every larger rssi to
\* "Excellent".
C22_ClassifyStrengthTable ==
    fona_call.op = "classify_strength" =>
       LET rssi == fona_call.args[1]
           label == fona_call.result[2]
       IN  /\ rssi = 0 => label = "None"
           /\ rssi \in 1..4 => label = "Poor"
           /\ rssi \in 5..9 => label = "Marginal"
           /\ rssi \in 10..14 => label = "OK"
           /\ rssi \in 15..19 => label = "Good"
           /\ rssi >= 20 => label = "Excellent"

\* the rssi on a threshold has been classified
C22_Witness ==
    /\ fona_call.op = "classify_strength"
    /\ fona_call.args[1] = 14
    /\ fona_call.result[2] = "OK"

\* ------------------------------------------------------- battery condition
\* C23: is_battery_ok() is true exactly when error_state is false and the
\* percent is above 40: for the line of percent p it is p > 40, and the object
\* built from None or from '' has percent 0, error_state true and is not ok.
C23_BatteryOkAboveCritical ==
    fona_call.op = "is_battery_ok" =>
       LET response == fona_call.args[1]
           ok == fona_call.result[2]
           self == fona_call.result[3]
       IN  /\ ok = (~self.error_state /\ self.battery_percent > 40)
           /\ \A p \in 0..MaxPercent :
                 response = CbcLine(p) =>
                    /\ ~self.error_state
                    /\ self.battery_percent = p
                    /\ ok = (p > 40)
           /\ response \in {NoneStr, <<>>} =>
                 /\ self.battery_percent = 0
                 /\ self.error_state
                 /\ ~ok

\* the battery at exactly the critical percent is not ok
C23_Witness ==
    /\ fona_call.op = "is_battery_ok"
    /\ fona_call.args[1] = CbcLine(40)
    /\ ~fona_call.result[3].error_state
    /\ fona_call.result[3].battery_percent = 40
    /\ ~fona_call.result[2]

\* ---------------------------------------------------------- value objects
\* C24: no constructor of BatteryCondition, SignalStrength or SmsMessage
\* raises; a malformed input gives error_state true (rssi and bit error rate 0
\* for SignalStrength), and the complete SMS header gives error_state false.
C24_ConstructorsNeverRaise ==
    /\ fona_call.op \in {"BatteryCondition", "SignalStrength", "SmsMessage"} =>
          fona_call.result[1] # "raised"
    /\ fona_call.op = "BatteryCondition" =>
          (fona_call.args[1] \in {NoneStr, <<>>, CBC_SHORT, CBC_GARBLED} =>
              fona_call.result[2].error_state)
    /\ fona_call.op = "SignalStrength" =>
          (fona_call.args[1] \in SignalInputsMalformed =>
              /\ fona_call.result[2].recieved_signal_strength = 0
              /\ fona_call.result[2].bit_error_rate = 0)
    /\ fona_call.op = "SmsMessage" =>
          fona_call.result[2].error_state = (fona_call.args[1] # SMS_HEADER)

\* ------------------------------------------------------------ the SMS list
\* the scan the claim describes: a header is paired with the line after it,
\* and the scan goes on behind that line
RECURSIVE PairwiseScan(_, _)
PairwiseScan(responses, index) ==
    IF index > Len(responses) THEN <<>>
    ELSE IF index \in Headers(responses)
    THEN << <<responses[index], responses[index + 1]>> >> \o
         PairwiseScan(responses, index + 2)
    ELSE PairwiseScan(responses, index + 1)

\* C25: the messages get_messages() returns are those of the pairwise scan of
\* the list response: one per header line, the next line its body, and no
\* message whose header is a line that was taken as a body.
C25_PairwiseScan ==
    fona_call.op = "get_messages" /\ fona_call.result[1] = "list" =>
       fona_call.result[2] =
          PairwiseScan(SendCommandReturns(serial_connection, fona_call.args[1]), 1)

\* -------------------------------------------------------------- termination
\* C26: every __send_command__ a thread has entered returns, and the modem
\* access lock, once taken, is released.
C26_SendCommandTerminates ==
    /\ \A t \in Threads : (pc[t] # "idle") ~> (pc[t] = "idle")
    /\ (modem_access_lock # Free) ~> (modem_access_lock = Free)

\* ------------------------------------------------- the modem access lock
\* thread t is between the first and the last write or read of a handshake
InHandshake(t) == pc[t] \in {"hs_mid", "hs_last"}

\* thread t is inside a __send_command__, past the acquire: its next step is
\* a write to or a read from the transport
CommandOnTransport(t) ==
    \E stage \in {"write", "test", "readline"} : AtStage(t, stage)

\* C27: while a thread is inside the handshake of Fona.send_message, no
\* __send_command__ of another thread is at a write or a read.
C27_HandshakeExcludesCommands ==
    \A t \in Threads : InHandshake(t) =>
        \A other \in Threads \ {t} : ~CommandOnTransport(other)

\* ------------------------------------------------ the two phases of update()
\* update() is between its two phases: __process_status_updates__ has
\* returned, __process_send_messages__ has not taken the lock yet
BetweenPhases == pc[Driver] = "psm_acquire"

\* C28 as stated: no lock-taking operation of another thread executes between
\* the status drain and the outbound drain of one update().
C28_SingleCriticalSection ==
    BetweenPhases => \A t \in Callers : ~InCritical(t)

\* C28: each drain of update() is a critical section of its own; no other
\* lock-taking operation executes during a drain, the manager lock is released
\* when the status drain returns and is not held by update() between the two
\* phases.
C28_TwoCriticalSections ==
    /\ [](InCritical(Driver) =>
             lock = Driver /\ \A t \in Callers : ~InCritical(t))
    /\ [][StatusDrainReturns => lock = Driver /\ lock' = Free]_vars
    /\ [](BetweenPhases => lock # Driver)

\* another thread's get_messages() executes between the two phases
C28_Witness ==
    /\ BetweenPhases
    /\ \E t \in Callers : lock = t /\ pc[t] = "gm_list_io" /\ op[t] = "get_messages"

\* ------------------------------------------------- acquire and release
\* C29: a lock is held exactly by a thread that is inside the section the lock
\* guards, so it is free when nothing executes; it is taken only when free, by
\* a thread at an acquire, and given up only by its holder, which leaves the
\* section in the same step.
C29_AcquireReleasePaired ==
    /\ [](\A t \in Threads : InCritical(t) <=> lock = t)
    /\ [](\A t \in Threads : pc[t] \in CommandIoLabels <=> modem_access_lock = t)
    /\ []((\A t \in Threads : pc[t] = "idle") =>
             lock = Free /\ modem_access_lock = Free)
    /\ [][lock' # lock =>
            \/ lock = Free /\ pc[lock'] \in ManagerAcquireLabels
            \/ lock' = Free /\ InCritical(lock)]_vars
    /\ [][modem_access_lock' # modem_access_lock =>
            \/ modem_access_lock = Free
                  /\ pc[modem_access_lock'] \in CommandAcquireLabels
            \/ modem_access_lock' = Free
                  /\ pc[modem_access_lock] \in CommandIoLabels]_vars

\* a send has failed and a delete has found nothing; every operation has
\* returned
C29_Witness ==
    /\ \A t \in Threads : pc[t] = "idle"
    /\ lock = Free
    /\ modem_access_lock = Free
    /\ hSendResult = "raised"
    /\ \E t \in Callers : ret[t] = <<"count", 0>>

\* ------------------------------------------------------- the retry budget
\* the step in which Fona.send_message returns to the drain without raising;
\* the request it was called for is message_to_send'
SendReturns ==
    /\ pc[Driver] \in {"psm_loop", "hs_io"}
    /\ hSendResult' \in {"True", "None"}

\* the requests the manager holds: in the queue, in the retry list
Held == Range(send_message_queue) \cup Range(messages_to_retry)

\* C30: when Fona.send_message returns without raising, its request is in
\* neither the queue nor the retry list; a request enters the retry list only
\* in the step in which its send raises, the queue only from the retry list or
\* as a new request, and no request the manager holds has its list changed in
\* a step in which no send raises.
C30_RetryOnlyOnRaise ==
    [][/\ SendReturns =>
             /\ (~InQueue(message_to_send.id))'
             /\ (~InRetryList(message_to_send.id))'
       /\ \A m \in Range(messages_to_retry') \ Range(messages_to_retry) :
             SendFails /\ m.id = message_to_send.id
       /\ \A m \in Range(send_message_queue') \ Range(send_message_queue) :
             m \in Range(messages_to_retry) \/ m.id = hNextId + 1
       /\ ~SendFails =>
             \A m \in Held' :
                m.id # hNextId + 1 =>
                   \E old \in Held : old.id = m.id /\ old.msg = m.msg]_vars

\* a send with no transport attached has returned True, and its request is
\* gone while the drain goes on
C30_Witness ==
    /\ pc[Driver] = "psm_loop"
    /\ hSendResult = "True"
    /\ serial_connection = None
    /\ ~InQueue(message_to_send.id)
    /\ ~InRetryList(message_to_send.id)
    /\ send_message_queue # <<>>

\* ------------------------------------------------ every request is attempted
\* the ids FonaManager.send_message can have given out
RequestIds == 1..MaxMsgs

\* request id is being handed to Fona.send_message, or has just been
Attempting(id) == message_to_send.id = id /\ hSendResult \in {"pending", "None"}

\* C31: a request in the outbound queue is handed to Fona.send_message in the
\* end, and a request leaves the queue only in the step that hands it to
\* Fona.send_message.
C31_EveryRequestAttempted ==
    /\ \A id \in RequestIds : InQueue(id) ~> Attempting(id)
    /\ [][\A id \in RequestIds :
            InQueue(id) /\ (~InQueue(id))' =>
               pc[Driver] = "psm_loop" /\ Attempting(id)']_vars

\* a send has raised and ended its drain; the request enqueued behind it is
\* still in the queue and has not been attempted
C31_Witness ==
    /\ pc[Driver] = "idle"
    /\ hSendResult = "raised"
    /\ Len(send_message_queue) = 1
    /\ send_message_queue[1].id = 2
    /\ send_message_queue[1].attempts = 0

\* ------------------------------------------------ a poll for every trigger
\* update() has dequeued a trigger of kind k and is about to question the modem
PollPending(k) ==
    \/ k = CHECK_BATTERY /\ pc[Driver] \in {"bat_acquire", "bat_io"}
    \/ k = CHECK_SIGNAL /\ pc[Driver] \in {"sig_acquire", "sig_io"}

\* C32: every trigger that has been dequeued was enqueued before the latest
\* poll of its kind questioned the modem, or that poll is about to begin: no
\* trigger is consumed without a poll after it.
C32_PollAfterEveryTrigger ==
    \A k \in Kinds : ~PollPending(k) => Dequeued(k) <= hPolledAt[k]

\* ------------------------------------------------- nothing deleted unread
\* C33: every SMS the host loop's delete_messages() deletes from the modem is
\* in the list its get_messages() returned before.
C33_DeletedWereReturned ==
    [][\A id \in sim \ sim' : id \in Range(MESSAGES)]_vars

\* ------------------------------------------------- snapshots are never None
\* C34: in every state after construction both cached snapshots are value
\* objects, and battery_condition() and signal_strength() return a value
\* object, never None.
C34_SnapshotsNeverNone ==
    /\ [](current_battery_state # NoneObject /\ current_signal_strength # NoneObject)
    /\ [][\A t \in Callers :
            Reads(t, "battery_condition") \/ Reads(t, "signal_strength") =>
               ret'[t][2] # NoneObject]_vars

\* a poll of this update() has ended with no answer the parser accepts, and a
\* read has returned the error snapshot it stored
C34_Witness ==
    /\ battery_checked
    /\ current_battery_state.error_state
    /\ \E t \in Callers :
          /\ Len(ret[t]) = 3
          /\ ret[t][1] = "battery_condition"
          /\ ret[t][2] = current_battery_state
          /\ ret[t][3] = Driver

C36_MinutesWaiting ==
    fona_call.op = "minutes_waiting" =>
       LET sent_time == fona_call.args[1]
           received_time == fona_call.args[2]
           elapsed == SecondOfYear(received_time)
                         - message_sent_time_utc([sent_time |-> sent_time])
       IN  fona_call.result[2] * 60 = elapsed

\* the sent time of SMS_HEADER is the one minutes_waiting() is applied to
SentTimeOfHeader == SmsMessage(SMS_HEADER, SMS_TEXT).sent_time = SMS_SENT_TIME
====
